---- MODULE Spec2Model ----
(***************************************************************************)
(* A model of nextjs-rag: the SQLite-backed VectorStore (chunks table and  *)
(* vec_chunks vec0 table), the sentence chunker, and the indexing          *)
(* pipeline built on them.                                                 *)
(*                                                                         *)
(* The database is a record db = [chunks, vec_chunks, chunks_seq, vec_seq].*)
(* chunks_seq and vec_seq are the AUTOINCREMENT counters (sqlite_sequence  *)
(* of chunks, and of the vec0 rowid shadow table): a rowid is never        *)
(* reused.  A store method is executed statement by statement; every write *)
(* statement may fail (a storage error), and db.transaction(...) rolls the *)
(* database back to its snapshot when the wrapped function throws.         *)
(* The created_at column (Date.now()) is read by no query and is left out. *)
(***************************************************************************)
EXTENDS Integers, Sequences, FiniteSets, TLC

VARIABLES db, txn, call, ret, nInserted, nReplaced, nDeleted,
          chunkIn, chunkOut, steps,
          fs, config, run, result, lastReindex,
          search, rag,
          embed,
          userConfig, env, given, got,
          history

storeVars == <<db, txn, call, ret, nInserted, nReplaced, nDeleted>>

\* the store variables a pipeline run does not touch: it calls the store
\* methods one after the other, on its own connection
storeCallVars == <<txn, call, ret, nInserted, nReplaced, nDeleted>>

\* steps: the position of the chunkText call being executed statement by
\* statement
chunkerVars == <<chunkIn, chunkOut, steps>>

indexVars == <<fs, config, run, result, lastReindex>>

\* the last similaritySearch call and the queryRag call being executed
searchVars == <<search, rag>>

\* the generateEmbeddings call being executed
embedVars == <<embed>>

\* the configuration module: userConfig, the OPENAI_API_KEY of the
\* environment, the values configure was given, the last read
configVars == <<userConfig, env, given, got>>

\* for every source, the file contents indexDocuments has indexed it with
historyVars == <<history>>

\* what the store, the chunker and the pipeline leave alone
clientVars == <<searchVars, embedVars, configVars, historyVars>>

vars == <<storeVars, chunkerVars, indexVars, clientVars>>

(***************************************************************************)
(* Bounds of the model.                                                    *)
(***************************************************************************)
\* longest text given to chunkText
MaxLen == 5
\* largest chunkSize given to chunkText
MaxChunkSize == 4
\* highest rowid either table hands out
MaxRowid == 3
\* highest rowid either table hands out over the runs of the pipeline
MaxIndexRowid == 6
\* highest rowid either table hands out before the searches
MaxSearchRowid == 2
\* longest list of texts given to generateEmbeddings
MaxTexts == 201
\* longest batch passed to insertChunks
MaxBatch == 2
\* largest topK a search is asked for
MaxTopK == 3
\* longest text given to chunkText when its loops are followed step by step
MaxSplitLen == 4
\* largest chunkSize given to chunkText when its loops are followed
MaxSplitSize == 3
\* highest rowid either table hands out over the runs that are queried
MaxAwaitRowid == 3
\* highest rowid either table hands out over repeated indexDocuments runs
MaxRepeatRowid == 4

(***************************************************************************)
(* Input domains.                                                          *)
(***************************************************************************)
Files == {"a.txt", "b.txt"}
Hashes == {"h1", "h2"}
Contents == {"x"}
\* chunk.embedding === undefined
NoEmbedding == <<>>
\* non-zero vectors of the index dimension (modelled with 2 components)
Embeddings == {<<1, 0>>}
\* SQL NULL in chunks.vec_rowid (rowids start at 1)
NULL == 0

DocumentChunks ==
  [filePath : Files, content : Contents, hash : Hashes,
   embedding : Embeddings \cup {NoEmbedding}]

(***************************************************************************)
(* The tables and the SQL statements the store issues.                     *)
(***************************************************************************)
EmptyDb == [chunks |-> {}, vec_chunks |-> {}, chunks_seq |-> 0, vec_seq |-> 0]

\* INSERT INTO vec_chunks (embedding) VALUES (?): vec0 assigns the rowid
VecInsert(d, embedding) ==
  [d EXCEPT !.vec_chunks = @ \cup {[rowid |-> d.vec_seq + 1, embedding |-> embedding]},
            !.vec_seq = @ + 1]

\* rows that collide with (file_path, hash) under UNIQUE(file_path, hash)
Conflicts(d, filePath, hash) ==
  {r \in d.chunks : r.file_path = filePath /\ r.hash = hash}

\* a plain INSERT: a collision aborts the statement
ConflictClauseAbort == "ABORT"

\* the conflict clause of the statement that writes a chunks row: OR REPLACE
ConflictClause == "REPLACE"

\* the statement fails with SQLITE_CONSTRAINT_UNIQUE
ConstraintViolated(d, filePath, hash) ==
  ConflictClause = "ABORT" /\ Conflicts(d, filePath, hash) # {}

\* a variant of the statement below that keeps the colliding row
ChunkInsertKeepingOld(d, filePath, content, hash, vecRowId) ==
  [d EXCEPT !.chunks = @ \cup
                {[id |-> d.chunks_seq + 1, file_path |-> filePath, content |-> content,
                  hash |-> hash, vec_rowid |-> vecRowId]},
            !.chunks_seq = @ + 1]

\* INSERT OR REPLACE INTO chunks (...): the colliding row is deleted, then
\* the new row is inserted under a fresh AUTOINCREMENT id
ChunkInsertOrReplace(d, filePath, content, hash, vecRowId) ==
  [d EXCEPT !.chunks = (@ \ Conflicts(d, filePath, hash)) \cup
                {[id |-> d.chunks_seq + 1, file_path |-> filePath, content |-> content,
                  hash |-> hash, vec_rowid |-> vecRowId]},
            !.chunks_seq = @ + 1]

\* SELECT vec_rowid FROM chunks WHERE file_path = ? AND vec_rowid IS NOT NULL
SelectVecRowIds(d, filePath) ==
  {r.vec_rowid : r \in {c \in d.chunks : c.file_path = filePath /\ c.vec_rowid # NULL}}

\* DELETE FROM vec_chunks WHERE rowid = ?
VecDelete(d, id) ==
  [d EXCEPT !.vec_chunks = {v \in @ : v.rowid # id}]

\* a variant of the statement below that deletes nothing
ChunksDeleteNothing(d, filePath) == d

\* DELETE FROM chunks WHERE file_path = ?
ChunksDeleteByFile(d, filePath) ==
  [d EXCEPT !.chunks = {c \in @ : c.file_path # filePath}]

\* a transaction wrapper that does not restore the snapshot
RollbackNothing(d, snapshot) == d

\* ROLLBACK issued by db.transaction when the wrapped function throws
Rollback(d, snapshot) == snapshot

(***************************************************************************)
(* Read-only methods.                                                      *)
(***************************************************************************)
\* SELECT COUNT(*) FROM chunks WHERE file_path = ?  ... count > 0
fileExists(d, filePath) ==
  Cardinality({c \in d.chunks : c.file_path = filePath}) > 0

\* SELECT DISTINCT file_path FROM chunks
getAllFiles(d) == {c.file_path : c \in d.chunks}

\* SELECT COUNT(*) FROM chunks
getChunkCount(d) == Cardinality(d.chunks)

\* numerator and denominator of the squared cosine, and the sign of the cosine
Dot(a, b) == a[1] * b[1] + a[2] * b[2]

Sign(x) == IF x > 0 THEN 1 ELSE IF x < 0 THEN -1 ELSE 0

\* cos(a, b) of two non-zero vectors, kept exact as sgn * sqrt(num / den)
Cosine(a, b) ==
  [sgn |-> Sign(Dot(a, b)), num |-> Dot(a, b) * Dot(a, b),
   den |-> Dot(a, a) * Dot(b, b)]

\* cosine x < cosine y
CosineLess(x, y) == x.sgn * x.num * y.den < y.sgn * y.num * x.den

\* A number of the query is k + m * cos for integers k, m and a cosine.
\* vec_distance_cosine(a, b) = 1 - cos(a, b)
vec_distance_cosine(a, b) == [k |-> 1, m |-> -1, cos |-> Cosine(a, b)]

\* 1 - x
OneMinus(x) == [k |-> 1 - x.k, m |-> 0 - x.m, cos |-> x.cos]

\* distance x < distance y, for two values of vec_distance_cosine
DistanceLess(x, y) == CosineLess(y.cos, x.cos)

\* FROM vec_chunks v JOIN chunks c ON v.rowid = c.vec_rowid
JoinedRows(d, queryEmbedding) ==
  {[content |-> c.content, file_path |-> c.file_path,
    distance |-> vec_distance_cosine(v.embedding, queryEmbedding),
    rowid |-> v.rowid, id |-> c.id] :
     <<v, c>> \in {p \in d.vec_chunks \X d.chunks : p[1].rowid = p[2].vec_rowid}}

\* ORDER BY distance ASC, rows of equal distance in storage order
RowBefore(x, y) ==
  \/ DistanceLess(x.distance, y.distance)
  \/ /\ ~DistanceLess(y.distance, x.distance)
     /\ \/ x.rowid < y.rowid
        \/ x.rowid = y.rowid /\ x.id <= y.id

RECURSIVE OrderByDistance(_)
OrderByDistance(rows) ==
  IF rows = {} THEN <<>>
  ELSE LET first == CHOOSE x \in rows : \A y \in rows : RowBefore(x, y)
       IN <<first>> \o OrderByDistance(rows \ {first})

\* LIMIT ?
Limit(rows, topK) ==
  IF topK < 0 \/ topK >= Len(rows) THEN rows ELSE SubSeq(rows, 1, topK)

\* a result that reports the distance as the similarity
SimilarityIsDistance(distance) == distance

\* similarity: 1 - row.distance
Similarity(distance) == OneMinus(distance)

similaritySearch(d, queryEmbedding, topK) ==
  LET results == Limit(OrderByDistance(JoinedRows(d, queryEmbedding)), topK)
  IN [i \in 1..Len(results) |->
        [content |-> results[i].content, filePath |-> results[i].file_path,
         similarity |-> Similarity(results[i].distance)]]

\* query vectors a search is asked with
QueryVectors == {<<1, 0>>, <<0, 1>>, <<1, 1>>}

(***************************************************************************)
(* The chunker.  A string is a sequence of one-character strings.          *)
(***************************************************************************)
Alphabet == {"a", ".", " ", "\r", "\n"}

Texts == UNION {[1..n -> Alphabet] : n \in 0..MaxLen}

\* \s of the regular expression and of String.prototype.trim
IsSpace(c) == c \in {" ", "\n", "\r", "\t"}

\* [.!?]
IsBoundary(c) == c \in {".", "!", "?"}

\* text.replace(/\r\n/g, '\n')
RECURSIVE ReplaceCRLF(_)
ReplaceCRLF(text) ==
  IF text = <<>> THEN <<>>
  ELSE IF Len(text) >= 2 /\ text[1] = "\r" /\ text[2] = "\n"
  THEN <<"\n">> \o ReplaceCRLF(SubSeq(text, 3, Len(text)))
  ELSE <<text[1]>> \o ReplaceCRLF(Tail(text))

\* .replace(/\r/g, '\n')
ReplaceCR(text) == [i \in 1..Len(text) |-> IF text[i] = "\r" THEN "\n" ELSE text[i]]

Normalize(text) == ReplaceCR(ReplaceCRLF(text))

\* text.split(/(?<=[.!?])\s+/): a separator is a whitespace run that starts
\* right after a boundary character; a separator at the end leaves ''
RECURSIVE SplitSentences(_)
SplitSentences(text) ==
  LET starts == {i \in 2..Len(text) : IsBoundary(text[i - 1]) /\ IsSpace(text[i])}
  IN IF starts = {} THEN <<text>>
     ELSE LET from == CHOOSE i \in starts : \A k \in starts : i <= k
              to == CHOOSE j \in from..Len(text) :
                      /\ \A k \in from..j : IsSpace(text[k])
                      /\ j = Len(text) \/ ~IsSpace(text[j + 1])
          IN <<SubSeq(text, 1, from - 1)>> \o
               SplitSentences(SubSeq(text, to + 1, Len(text)))

RECURSIVE TrimStart(_)
TrimStart(str) ==
  IF str = <<>> \/ ~IsSpace(Head(str)) THEN str ELSE TrimStart(Tail(str))

RECURSIVE TrimEnd(_)
TrimEnd(str) ==
  IF str = <<>> \/ ~IsSpace(str[Len(str)]) THEN str
  ELSE TrimEnd(SubSeq(str, 1, Len(str) - 1))

\* String.prototype.trim
Trim(str) == TrimStart(TrimEnd(str))

\* str.slice(start, end) with 0 <= start
Slice(str, start, end) == SubSeq(str, start + 1, IF end < Len(str) THEN end ELSE Len(str))

\* the seed taken from the wrong end of the previous chunk
OverlapTextFromStart(previousChunk, chunkOverlap) == Slice(previousChunk, 0, chunkOverlap)

\* previousChunk.slice(-chunkOverlap), for chunkOverlap > 0
OverlapText(previousChunk, chunkOverlap) ==
  IF chunkOverlap >= Len(previousChunk) THEN previousChunk
  ELSE SubSeq(previousChunk, Len(previousChunk) - chunkOverlap + 1, Len(previousChunk))

\* the while loop of splitByCharacter, from a given start
RECURSIVE SplitFrom(_, _, _, _)
SplitFrom(text, chunkSize, overlap, start) ==
  IF start >= Len(text) THEN <<>>
  ELSE <<Slice(text, start, start + chunkSize)>> \o
         SplitFrom(text, chunkSize, overlap, start + chunkSize - overlap)

splitByCharacter(text, chunkSize, overlap) == SplitFrom(text, chunkSize, overlap, 0)

\* How a chunk was produced, recorded beside it: by the character split
\* (last: the last window of its unit) or by sentence accumulation (seeded:
\* the buffer was started with the overlap seed; seed: that seed; unit: the
\* sentence unit the buffer was started with).
CharacterTag(last) ==
  [kind |-> "character", last |-> last, seeded |-> FALSE, seed |-> <<>>, unit |-> <<>>]

SentenceTag(seeded, seed, unit) ==
  [kind |-> "sentence", last |-> FALSE, seeded |-> seeded, seed |-> seed, unit |-> unit]

\* chunks.push(currentChunk.trim())
PushCurrent(st) ==
  [st EXCEPT !.chunks = Append(@, Trim(st.currentChunk)),
             !.tags = Append(@, st.tag)]

\* a buffer that is overwritten by the sentence
JoinSentenceReplacing(currentChunk, sentence) == sentence

\* currentChunk += (currentChunk ? ' ' : '') + sentence
JoinSentence(currentChunk, sentence) ==
  currentChunk \o (IF currentChunk # <<>> THEN <<" ">> ELSE <<>>) \o sentence

\* one iteration of for (const sentence of sentences)
ChunkStep(st, sentence, chunkSize, chunkOverlap) ==
  IF Len(sentence) > chunkSize
  THEN LET flushed == IF st.currentChunk # <<>>
                      THEN [PushCurrent(st) EXCEPT !.currentChunk = <<>>]
                      ELSE st
           parts == splitByCharacter(sentence, chunkSize, chunkOverlap)
       IN [flushed EXCEPT
             !.chunks = @ \o parts,
             !.tags = @ \o [k \in 1..Len(parts) |-> CharacterTag(k = Len(parts))]]
  ELSE IF Len(st.currentChunk) + Len(sentence) > chunkSize
  THEN LET pushed == IF st.currentChunk # <<>> THEN PushCurrent(st) ELSE st
       IN IF Len(pushed.chunks) > 0 /\ chunkOverlap > 0
          THEN LET previousChunk == pushed.chunks[Len(pushed.chunks)]
                   overlapText == OverlapText(previousChunk, chunkOverlap)
               IN [pushed EXCEPT
                     !.currentChunk = overlapText \o <<" ">> \o sentence,
                     !.tag = SentenceTag(TRUE, overlapText, sentence)]
          ELSE [pushed EXCEPT !.currentChunk = sentence,
                              !.tag = SentenceTag(FALSE, <<>>, sentence)]
  ELSE [st EXCEPT !.currentChunk = JoinSentence(st.currentChunk, sentence),
                  !.tag = IF st.currentChunk = <<>>
                          THEN SentenceTag(FALSE, <<>>, sentence) ELSE @]

RECURSIVE ChunkLoop(_, _, _, _, _)
ChunkLoop(st, sentences, i, chunkSize, chunkOverlap) ==
  IF i > Len(sentences) THEN st
  ELSE ChunkLoop(ChunkStep(st, sentences[i], chunkSize, chunkOverlap),
                 sentences, i + 1, chunkSize, chunkOverlap)

\* indices kept by chunks.filter(chunk => chunk.length > 0)
RECURSIVE FilterNonEmpty(_, _)
FilterNonEmpty(chunks, tags) ==
  IF chunks = <<>> THEN [chunks |-> <<>>, tags |-> <<>>]
  ELSE LET rest == FilterNonEmpty(Tail(chunks), Tail(tags))
       IN IF Len(Head(chunks)) > 0
          THEN [chunks |-> <<Head(chunks)>> \o rest.chunks,
                tags |-> <<Head(tags)>> \o rest.tags]
          ELSE rest

\* chunkText with the provenance of every chunk it returns
ChunkTextTagged(text, chunkSize, chunkOverlap) ==
  LET sentences == SplitSentences(Normalize(text))
      start == [chunks |-> <<>>, tags |-> <<>>, currentChunk |-> <<>>,
                tag |-> SentenceTag(FALSE, <<>>, <<>>)]
      looped == ChunkLoop(start, sentences, 1, chunkSize, chunkOverlap)
      final == IF Trim(looped.currentChunk) # <<>> THEN PushCurrent(looped) ELSE looped
  IN FilterNonEmpty(final.chunks, final.tags)

chunkText(text, chunkSize, chunkOverlap) ==
  ChunkTextTagged(text, chunkSize, chunkOverlap).chunks

(***************************************************************************)
(* Control state of the store method being executed.                       *)
(***************************************************************************)
NoTxn == [active |-> FALSE, snapshot |-> EmptyDb]

\* batch holds the elements of the chunks array the loop has reached so far
\* (the array is an input that nothing reads before the loop reaches it, so
\* each element is drawn when it is iterated); n is chunks.length
Idle ==
  [op |-> "idle", pc |-> "", batch |-> <<>>, n |-> 0, i |-> 0, vecRowId |-> NULL,
   filePath |-> "", ids |-> {}, pre |-> EmptyDb, replaced |-> 0]

\* how the last call ended: its arguments, the database it started from
\* (pre), and for a throw the error and the loop index it was raised at
NoRet ==
  [op |-> "", status |-> "none", batch |-> <<>>, filePath |-> "", pre |-> EmptyDb,
   at |-> 0, error |-> ""]

\* what every connection other than the writer reads
Committed == IF txn.active THEN txn.snapshot ELSE db

\* first statement of insertChunk for a chunk: the vec insert is skipped
\* when chunk.embedding is undefined
StartPc(chunk) == IF chunk.embedding # NoEmbedding THEN "vec" ELSE "row"

\* no chunkText call
NoChunkIn == [text |-> <<>>, chunkSize |-> 1, chunkOverlap |-> 0]

NoChunkOut == [done |-> FALSE, chunks |-> <<>>, tags |-> <<>>]

\* nothing has been indexed
NoHistory == [filePath \in Files |-> {}]

\* chunkText is not being executed
NoSteps ==
  [pc |-> "idle", sentences |-> <<>>, i |-> 0,
   st |-> [chunks |-> <<>>, tags |-> <<>>, currentChunk |-> <<>>,
           tag |-> [kind |-> "sentence", last |-> FALSE, seeded |-> FALSE,
                    seed |-> <<>>, unit |-> <<>>]],
   start |-> 0, parts |-> <<>>, iterations |-> 0]

InitStore ==
  /\ db = EmptyDb
  /\ txn = NoTxn
  /\ call = Idle
  /\ ret = NoRet
  /\ nInserted = 0
  /\ nReplaced = 0
  /\ nDeleted = 0

\* fs.existsSync(path) is false
Missing == <<"ENOENT">>

\* a run of indexDocuments / reindexDocuments.  Beside the locals of the
\* function it records what the run did: deleted (sources whose old chunks the
\* second loop deleted), embedded (sources an embedding request was issued
\* for), updated (sources counted by filesUpdated++ in the second loop),
\* handle (the state of the VectorStore the run opened), walked (the
\* directory has been enumerated) and sourcesRead (the indexed sources have
\* been read from the store).
NoRun ==
  [op |-> "idle", pc |-> "", files |-> <<>>, existingFiles |-> {}, i |-> 0,
   filesUpdated |-> 0, totalChunks |-> 0, chunks |-> <<>>, pre |-> EmptyDb,
   removed |-> {}, prev |-> [valid |-> FALSE, rows |-> {}, count |-> 0, vectors |-> 0],
   deleted |-> {}, embedded |-> {}, updated |-> {}, handle |-> "none",
   walked |-> FALSE, sourcesRead |-> FALSE]

\* how the last run ended: the returned counts, or the error thrown while the
\* file at index failed was processed
NoResult ==
  [op |-> "", status |-> "none", filesProcessed |-> 0, filesUpdated |-> 0,
   chunksCreated |-> 0, files |-> <<>>, pre |-> EmptyDb, removed |-> {},
   prev |-> [valid |-> FALSE, rows |-> {}, count |-> 0, vectors |-> 0],
   deleted |-> {}, embedded |-> {}, updated |-> {}, handle |-> "none",
   failed |-> 0, error |-> ""]

NoSnapshot == [valid |-> FALSE, rows |-> {}, count |-> 0, vectors |-> 0]

\* no similaritySearch call yet.  rows are the rows of the SQL query, results
\* the ContextChunks made of them
NoSearch ==
  [status |-> "none", queryEmbedding |-> <<>>, topK |-> 0, rows |-> <<>>,
   results |-> <<>>]

\* queryRag is not running and has not run
NoRag ==
  [pc |-> "idle", status |-> "none", question |-> "", topK |-> 0,
   handle |-> "none", requested |-> FALSE, pre |-> EmptyDb, error |-> "",
   context |-> <<>>, text |-> <<>>, citations |-> <<>>]

InitNoSearch ==
  /\ search = NoSearch
  /\ rag = NoRag

\* generateEmbeddings is not running and has not run
NoEmbed ==
  [pc |-> "idle", texts |-> <<>>, i |-> 0, allEmbeddings |-> <<>>,
   requests |-> <<>>, status |-> "none", returned |-> <<>>]

InitNoEmbed == embed = NoEmbed

\* JavaScript values of the configuration: undefined, a string, a number
Undefined == [type |-> "undefined", str |-> "", num |-> 0]

Str(s) == [type |-> "string", str |-> s, num |-> 0]

Num(n) == [type |-> "number", str |-> "", num |-> n]

\* the fields of RagConfig
Fields == {"apiKey", "embeddingModel", "dbPath", "chunkSize", "chunkOverlap", "topK"}

\* let userConfig: RagConfig = {}: an object is a function from its keys
NoUserConfig == [field \in {} |-> Undefined]

\* what the configure calls have given: last, for each field the value of the
\* most recent call that gave it one that is not undefined, and kept, the
\* fields with such a value that a later call passed undefined for
NothingGiven == [last |-> [field \in Fields |-> Undefined], kept |-> {}]

\* no getConfig call yet
NoGot == [status |-> "none", op |-> "", config |-> NoUserConfig,
          opened |-> FALSE, requested |-> FALSE]

\* the configuration module is not used: nothing configured, a key in the
\* environment
InitNoConfig ==
  /\ userConfig = NoUserConfig
  /\ env = Str("sk-env")
  /\ given = NothingGiven
  /\ got = NoGot

\* no pipeline: no file, the default-like options, no run
InitNoIndex ==
  /\ fs = [path \in Files |-> Missing]
  /\ config = [chunkSize |-> 2, chunkOverlap |-> 0]
  /\ run = NoRun
  /\ result = NoResult
  /\ lastReindex = NoSnapshot

Init ==
  /\ InitStore
  /\ chunkIn = NoChunkIn
  /\ chunkOut = NoChunkOut
  /\ steps = NoSteps
  /\ history = NoHistory
  /\ InitNoIndex
  /\ InitNoSearch
  /\ InitNoEmbed
  /\ InitNoConfig

\* the method throws: an open transaction is rolled back
Throw(error) ==
  /\ db' = IF txn.active THEN Rollback(db, txn.snapshot) ELSE db
  /\ txn' = NoTxn
  /\ ret' = [op |-> call.op, status |-> "throw", batch |-> <<>>,
             filePath |-> call.filePath, pre |-> call.pre, at |-> call.i,
             error |-> error]
  /\ call' = Idle
  /\ UNCHANGED <<nInserted, nReplaced, nDeleted>>

\* insertChunk(chunk) called directly
CallInsertChunk(chunk) ==
  /\ call.op = "idle"
  /\ db.chunks_seq < MaxRowid
  /\ db.vec_seq < MaxRowid
  /\ call' = [Idle EXCEPT !.op = "insertChunk", !.pc = StartPc(chunk),
                          !.batch = <<chunk>>, !.n = 1, !.i = 1, !.pre = db]
  /\ ret' = NoRet
  /\ UNCHANGED <<db, txn, nInserted, nReplaced, nDeleted>>

\* insertChunks(chunks) called with an array of n chunks
CallInsertChunks(n) ==
  /\ call.op = "idle"
  /\ db.chunks_seq + n <= MaxRowid
  /\ db.vec_seq + n <= MaxRowid
  /\ call' = [Idle EXCEPT !.op = "insertChunks", !.pc = "begin", !.n = n, !.pre = db]
  /\ ret' = NoRet
  /\ UNCHANGED <<db, txn, nInserted, nReplaced, nDeleted>>

\* deleteChunksByFile(filePath) called; it starts with the SELECT
CallDeleteChunksByFile(filePath) ==
  /\ call.op = "idle"
  /\ call' = [Idle EXCEPT !.op = "deleteChunksByFile", !.pc = "begin",
                          !.filePath = filePath, !.pre = db,
                          !.ids = SelectVecRowIds(db, filePath)]
  /\ ret' = NoRet
  /\ UNCHANGED <<db, txn, nInserted, nReplaced, nDeleted>>

\* BEGIN of db.transaction(...)
Begin ==
  /\ call.pc = "begin"
  /\ txn' = [active |-> TRUE, snapshot |-> db]
  /\ call' = IF call.op = "insertChunks"
             THEN [call EXCEPT !.pc = IF call.n = 0 THEN "commit" ELSE "loop"]
             ELSE [call EXCEPT !.pc = IF call.ids = {} THEN "commit" ELSE "deleteVec"]
  /\ UNCHANGED <<db, ret, nInserted, nReplaced, nDeleted>>

\* for (const chunk of chunks): the loop reaches the next element
LoopChunk(chunk) ==
  /\ call.pc = "loop"
  /\ call' = [call EXCEPT !.batch = Append(@, chunk), !.i = @ + 1,
                          !.pc = StartPc(chunk), !.vecRowId = NULL]
  /\ UNCHANGED <<db, txn, ret, nInserted, nReplaced, nDeleted>>

\* insertChunk, first statement: the embedding goes into vec_chunks
InsertVec ==
  /\ call.pc = "vec"
  /\ \E ok \in BOOLEAN :
       IF ok
       THEN /\ db' = VecInsert(db, call.batch[call.i].embedding)
            /\ call' = [call EXCEPT !.vecRowId = db.vec_seq + 1, !.pc = "row"]
            /\ UNCHANGED <<txn, ret, nInserted, nReplaced, nDeleted>>
       ELSE Throw("SQLITE_ERROR")

\* insertChunk returns; for insertChunks the loop goes on
AfterInsertRow(replaced) ==
  IF call.op = "insertChunks"
  THEN /\ call' = [call EXCEPT !.pc = IF call.i < call.n THEN "loop" ELSE "commit",
                               !.vecRowId = NULL, !.replaced = @ + replaced]
       /\ UNCHANGED <<txn, ret, nInserted, nReplaced, nDeleted>>
  ELSE /\ call' = Idle
       /\ ret' = [NoRet EXCEPT !.op = "insertChunk", !.status = "ok",
                               !.batch = call.batch, !.pre = call.pre]
       /\ nInserted' = nInserted + 1
       /\ nReplaced' = nReplaced + replaced
       /\ UNCHANGED <<txn, nDeleted>>

\* insertChunk, second statement: INSERT OR REPLACE INTO chunks
InsertRow ==
  /\ call.pc = "row"
  /\ \E ok \in BOOLEAN :
       IF ok
       THEN LET chunk == call.batch[call.i] IN
            IF ConstraintViolated(db, chunk.filePath, chunk.hash)
            THEN Throw("SQLITE_CONSTRAINT_UNIQUE")
            ELSE
            /\ db' = ChunkInsertOrReplace(db, chunk.filePath, chunk.content,
                                          chunk.hash, call.vecRowId)
            /\ AfterInsertRow(Cardinality(Conflicts(db, chunk.filePath, chunk.hash)))
       ELSE Throw("SQLITE_ERROR")

\* deleteTransaction: one DELETE FROM vec_chunks per selected rowid
DeleteVec ==
  /\ call.pc = "deleteVec"
  /\ \E ok \in BOOLEAN :
       IF ok
       THEN \E id \in call.ids :
              /\ \A other \in call.ids : id <= other
              /\ db' = VecDelete(db, id)
              /\ call' = [call EXCEPT !.ids = @ \ {id},
                                      !.pc = IF call.ids = {id} THEN "commit"
                                             ELSE "deleteVec"]
              /\ UNCHANGED <<txn, ret, nInserted, nReplaced, nDeleted>>
       ELSE Throw("SQLITE_ERROR")

\* COMMIT of db.transaction(...)
Commit ==
  /\ call.pc = "commit"
  /\ \E ok \in BOOLEAN :
       IF ok
       THEN /\ txn' = NoTxn
            /\ IF call.op = "insertChunks"
               THEN /\ call' = Idle
                    /\ ret' = [NoRet EXCEPT !.op = "insertChunks", !.status = "ok",
                                            !.batch = call.batch, !.pre = call.pre]
                    /\ nInserted' = nInserted + Len(call.batch)
                    /\ nReplaced' = nReplaced + call.replaced
               ELSE /\ call' = [call EXCEPT !.pc = "deleteChunks"]
                    /\ UNCHANGED <<ret, nInserted, nReplaced>>
            /\ UNCHANGED <<db, nDeleted>>
       ELSE Throw("SQLITE_ERROR")

\* deleteChunksByFile, last statement, outside the transaction
DeleteChunks ==
  /\ call.pc = "deleteChunks"
  /\ \E ok \in BOOLEAN :
       IF ok
       THEN /\ db' = ChunksDeleteByFile(db, call.filePath)
            /\ nDeleted' = nDeleted +
                 Cardinality({c \in db.chunks : c.file_path = call.filePath})
            /\ call' = Idle
            /\ ret' = [NoRet EXCEPT !.op = "deleteChunksByFile", !.status = "ok",
                                    !.filePath = call.filePath, !.pre = call.pre]
            /\ UNCHANGED <<txn, nInserted, nReplaced>>
       ELSE Throw("SQLITE_ERROR")

Next ==
  \/ \E chunk \in DocumentChunks : CallInsertChunk(chunk) /\ UNCHANGED <<chunkerVars, indexVars, clientVars>>
  \/ \E n \in 0..MaxBatch : CallInsertChunks(n) /\ UNCHANGED <<chunkerVars, indexVars, clientVars>>
  \/ \E chunk \in DocumentChunks : LoopChunk(chunk) /\ UNCHANGED <<chunkerVars, indexVars, clientVars>>
  \/ \E filePath \in Files : CallDeleteChunksByFile(filePath) /\ UNCHANGED <<chunkerVars, indexVars, clientVars>>
  \/ Begin /\ UNCHANGED <<chunkerVars, indexVars, clientVars>>
  \/ InsertVec /\ UNCHANGED <<chunkerVars, indexVars, clientVars>>
  \/ InsertRow /\ UNCHANGED <<chunkerVars, indexVars, clientVars>>
  \/ DeleteVec /\ UNCHANGED <<chunkerVars, indexVars, clientVars>>
  \/ Commit /\ UNCHANGED <<chunkerVars, indexVars, clientVars>>
  \/ DeleteChunks /\ UNCHANGED <<chunkerVars, indexVars, clientVars>>

Spec == Init /\ [][Next]_vars

(***************************************************************************)
(* chunkText applied to every text and every option pair within the bounds.*)
(***************************************************************************)
InitChunk ==
  /\ InitStore
  /\ InitNoIndex
  /\ InitNoSearch
  /\ InitNoEmbed
  /\ InitNoConfig
  /\ chunkIn \in [text : Texts, chunkSize : 1..MaxChunkSize,
                   chunkOverlap : 0..(MaxChunkSize - 1)]
  /\ chunkIn.chunkOverlap < chunkIn.chunkSize
  /\ chunkOut = NoChunkOut
  /\ steps = NoSteps
  /\ history = NoHistory

\* chunkText(text, {chunkSize, chunkOverlap}) is called and returns
CallChunkText ==
  /\ ~chunkOut.done
  /\ LET tagged == ChunkTextTagged(chunkIn.text, chunkIn.chunkSize, chunkIn.chunkOverlap)
     IN chunkOut' = [done |-> TRUE, chunks |-> tagged.chunks, tags |-> tagged.tags]
  /\ UNCHANGED <<chunkIn, steps, storeVars, indexVars, clientVars>>

NextChunk == CallChunkText

SpecChunk == InitChunk /\ [][NextChunk]_vars

(***************************************************************************)
(* chunkText applied to texts of two different letters, so that one        *)
(* sentence unit can be told from another.                                 *)
(***************************************************************************)
LetterAlphabet == {"a", "b", ".", " "}

LetterTexts == UNION {[1..n -> LetterAlphabet] : n \in 0..MaxLen}

InitChunkContent ==
  /\ InitStore
  /\ InitNoIndex
  /\ InitNoSearch
  /\ InitNoEmbed
  /\ InitNoConfig
  /\ chunkIn \in [text : LetterTexts, chunkSize : 1..MaxChunkSize,
                   chunkOverlap : 0..(MaxChunkSize - 1)]
  /\ chunkIn.chunkOverlap < chunkIn.chunkSize
  /\ chunkOut = NoChunkOut
  /\ steps = NoSteps
  /\ history = NoHistory

SpecChunkContent == InitChunkContent /\ [][NextChunk]_vars

(***************************************************************************)
(* chunkText followed statement by statement: one step per iteration of    *)
(* the for loop over the sentence units and per iteration of the while     *)
(* loop of splitByCharacter.  The options are also drawn with              *)
(* chunkOverlap >= chunkSize.  The call runs to completion without         *)
(* yielding, so its next statement is always taken (weak fairness).        *)
(***************************************************************************)
StepAlphabet == {"a", ".", " "}

StepTexts == UNION {[1..n -> StepAlphabet] : n \in 0..MaxSplitLen}

\* iterations of one while loop that are followed; a loop that terminates
\* takes at most text.length of them
MaxIterations == MaxSplitLen + 1

\* str.slice(start, end): a negative index counts from the end
SliceIndex(str, index) ==
  IF index < 0 THEN (IF Len(str) + index < 0 THEN 0 ELSE Len(str) + index)
  ELSE IF index > Len(str) THEN Len(str) ELSE index

StringSlice(str, start, end) ==
  LET from == SliceIndex(str, start)
      to == SliceIndex(str, end)
  IN IF to <= from THEN <<>> ELSE SubSeq(str, from + 1, to)

\* a stride that ignores the overlap's direction
AdvanceStartByOverlap(start, chunkSize, overlap) == start + overlap

\* start += chunkSize - overlap
AdvanceStart(start, chunkSize, overlap) == start + chunkSize - overlap

InitChunkSteps ==
  /\ InitStore
  /\ InitNoIndex
  /\ InitNoSearch
  /\ InitNoEmbed
  /\ InitNoConfig
  /\ chunkIn \in [text : StepTexts, chunkSize : 1..MaxSplitSize,
                   chunkOverlap : 0..(MaxSplitSize + 1)]
  /\ chunkOut = NoChunkOut
  /\ steps = NoSteps
  /\ history = NoHistory

\* chunkText is called: the text is normalised and split into sentence units
EnterChunkText ==
  /\ steps.pc = "idle"
  /\ steps' = [NoSteps EXCEPT !.pc = "for",
                              !.sentences = SplitSentences(Normalize(chunkIn.text)),
                              !.i = 1]
  /\ UNCHANGED <<chunkIn, chunkOut>>

\* an iteration of the for loop with a unit no longer than chunkSize
ForSentence ==
  /\ steps.pc = "for"
  /\ steps.i <= Len(steps.sentences)
  /\ Len(steps.sentences[steps.i]) <= chunkIn.chunkSize
  /\ steps' = [steps EXCEPT
                 !.st = ChunkStep(steps.st, steps.sentences[steps.i],
                                  chunkIn.chunkSize, chunkIn.chunkOverlap),
                 !.i = @ + 1]
  /\ UNCHANGED <<chunkIn, chunkOut>>

\* an iteration of the for loop with a longer unit: the buffer is flushed and
\* splitByCharacter is entered
EnterSplitByCharacter ==
  /\ steps.pc = "for"
  /\ steps.i <= Len(steps.sentences)
  /\ Len(steps.sentences[steps.i]) > chunkIn.chunkSize
  /\ steps' = [steps EXCEPT
                 !.st = IF steps.st.currentChunk # <<>>
                        THEN [PushCurrent(steps.st) EXCEPT !.currentChunk = <<>>]
                        ELSE steps.st,
                 !.pc = "while", !.start = 0, !.parts = <<>>, !.iterations = 0]
  /\ UNCHANGED <<chunkIn, chunkOut>>

\* one iteration of while (start < text.length)
WhileIteration ==
  /\ steps.pc = "while"
  /\ steps.start < Len(steps.sentences[steps.i])
  /\ steps.iterations < MaxIterations
  /\ LET text == steps.sentences[steps.i]
         sum == steps.start + chunkIn.chunkSize
         end == IF sum < Len(text) THEN sum ELSE Len(text)
     IN steps' = [steps EXCEPT
                    !.parts = Append(@, StringSlice(text, steps.start, end)),
                    !.start = AdvanceStart(@, chunkIn.chunkSize, chunkIn.chunkOverlap),
                    !.iterations = @ + 1]
  /\ UNCHANGED <<chunkIn, chunkOut>>

\* the while loop ends: chunks.push(...parts); continue
ReturnParts ==
  /\ steps.pc = "while"
  /\ steps.start >= Len(steps.sentences[steps.i])
  /\ steps' = [steps EXCEPT
                 !.st.chunks = @ \o steps.parts,
                 !.st.tags = @ \o [k \in 1..Len(steps.parts) |->
                                     CharacterTag(k = Len(steps.parts))],
                 !.pc = "for", !.i = @ + 1]
  /\ UNCHANGED <<chunkIn, chunkOut>>

\* the for loop ends: the last buffer is pushed and the chunks are filtered
ReturnChunks ==
  /\ steps.pc = "for"
  /\ steps.i > Len(steps.sentences)
  /\ LET final == IF Trim(steps.st.currentChunk) # <<>>
                  THEN PushCurrent(steps.st) ELSE steps.st
         kept == FilterNonEmpty(final.chunks, final.tags)
     IN chunkOut' = [done |-> TRUE, chunks |-> kept.chunks, tags |-> kept.tags]
  /\ steps' = [steps EXCEPT !.pc = "returned"]
  /\ UNCHANGED chunkIn

StepsUnchanged == UNCHANGED <<storeVars, indexVars, clientVars>>

NextChunkSteps ==
  \/ EnterChunkText /\ StepsUnchanged
  \/ ForSentence /\ StepsUnchanged
  \/ EnterSplitByCharacter /\ StepsUnchanged
  \/ WhileIteration /\ StepsUnchanged
  \/ ReturnParts /\ StepsUnchanged
  \/ ReturnChunks /\ StepsUnchanged

SpecChunkSteps == InitChunkSteps /\ [][NextChunkSteps]_vars /\ WF_vars(NextChunkSteps)

(***************************************************************************)
(* The indexing pipeline.  fs maps every path of the directory to the      *)
(* file's text, or to Missing.  The directory is changed between runs, not *)
(* during one.  A run is suspended at await generateEmbeddings(chunks);    *)
(* the store methods it calls run to completion on its connection.         *)
(***************************************************************************)
FileTexts == {<<"a", ".", " ", "a", ".">>, <<"a", ".">>, <<" ">>}

\* chunk options a run is configured with
IndexChunkOptions ==
  {[chunkSize |-> 2, chunkOverlap |-> 0], [chunkSize |-> 2, chunkOverlap |-> 1]}

\* crypto.createHash('md5').update(content).digest('hex'): a digest of the
\* content, with no collision among the contents of the model
hashContent(content) == <<"md5">> \o content

Count(text, c) == Cardinality({i \in 1..Len(text) : text[i] = c})

\* the vector the embedding API returns for one input: a function of the text
Embedding(text) == <<1 + Count(text, "a"), 1 + Count(text, ".")>>

\* generateEmbeddings(texts) when every request succeeds
generateEmbeddings(texts) == [i \in 1..Len(texts) |-> Embedding(texts[i])]

\* the whole of insertChunk(chunk) when no statement fails
insertChunk(d, chunk) ==
  LET hasEmbedding == chunk.embedding # NoEmbedding
      withVector == IF hasEmbedding THEN VecInsert(d, chunk.embedding) ELSE d
      vecRowId == IF hasEmbedding THEN d.vec_seq + 1 ELSE NULL
  IN ChunkInsertOrReplace(withVector, chunk.filePath, chunk.content, chunk.hash, vecRowId)

\* the whole of insertChunks(chunks) when no statement fails
RECURSIVE insertChunks(_, _)
insertChunks(d, chunks) ==
  IF chunks = <<>> THEN d
  ELSE insertChunks(insertChunk(d, Head(chunks)), Tail(chunks))

RECURSIVE VecDeleteAll(_, _)
VecDeleteAll(d, ids) ==
  IF ids = {} THEN d
  ELSE LET id == CHOOSE x \in ids : \A y \in ids : x <= y
       IN VecDeleteAll(VecDelete(d, id), ids \ {id})

\* the whole of deleteChunksByFile(filePath) when no statement fails
deleteChunksByFile(d, filePath) ==
  ChunksDeleteByFile(VecDeleteAll(d, SelectVecRowIds(d, filePath)), filePath)

\* a check that finds every indexed file on disk
FileNeverMissing(files, existingFile) == FALSE

\* !fs.existsSync(path.join(process.cwd(), existingFile))
FileMissing(files, existingFile) == files[existingFile] = Missing

\* for (const existingFile of existingFiles) ... deleteChunksByFile(existingFile)
RECURSIVE RemoveDeletedFiles(_, _)
RemoveDeletedFiles(d, removed) ==
  IF removed = {} THEN d
  ELSE LET existingFile == CHOOSE f \in removed : TRUE
       IN RemoveDeletedFiles(deleteChunksByFile(d, existingFile), removed \ {existingFile})

\* readdirSync order of the directory
FileOrder == <<"a.txt", "b.txt">>

\* getAllFiles(directory, extensions, ignorePatterns): the files on disk
DiscoveredFiles(files) ==
  LET present == {i \in 1..Len(FileOrder) : files[FileOrder[i]] # Missing}
      Rank(i) == Cardinality({k \in present : k <= i})
  IN [n \in 1..Cardinality(present) |->
        FileOrder[CHOOSE i \in present : Rank(i) = n]]

\* a check that re-indexes new files only
NeedsUpdateOnlyNew(existingFiles, relativePath) == relativePath \notin existingFiles

\* let needsUpdate = !existingFiles.has(relativePath);
\* if (!needsUpdate && existingFiles.has(relativePath)) needsUpdate = true
NeedsUpdate(existingFiles, relativePath) ==
  LET needsUpdate == relativePath \notin existingFiles
  IN IF ~needsUpdate /\ relativePath \in existingFiles THEN TRUE ELSE needsUpdate

\* chunks.map((chunk, idx) => ({filePath, content, hash, embedding}))
documentChunks(relativePath, chunks, embeddings) ==
  [idx \in 1..Len(chunks) |->
     [filePath |-> relativePath, content |-> chunks[idx],
      hash |-> hashContent(chunks[idx]), embedding |-> embeddings[idx]]]

\* chunks of the text of a file under the configured options
ChunksOf(text) == chunkText(text, config.chunkSize, config.chunkOverlap)

\* rowids one run over the directory can consume
RowidsNeeded(files) ==
  LET discovered == DiscoveredFiles(files)
      Total[n \in 0..Len(discovered)] ==
        IF n = 0 THEN 0 ELSE Total[n - 1] + Len(ChunksOf(files[discovered[n]]))
  IN Total[Len(discovered)]

\* what two runs are compared on: the (filePath, content, hash) rows,
\* getChunkCount() and the number of vector rows
Snapshot(d) ==
  [valid |-> TRUE, rows |-> {<<c.file_path, c.content, c.hash>> : c \in d.chunks},
   count |-> getChunkCount(d), vectors |-> Cardinality(d.vec_chunks)]

InitIndex ==
  /\ InitStore
  /\ chunkIn = NoChunkIn
  /\ chunkOut = NoChunkOut
  /\ steps = NoSteps
  /\ history = NoHistory
  /\ fs = [path \in Files |-> Missing]
  /\ config \in IndexChunkOptions
  /\ run = NoRun
  /\ result = NoResult
  /\ lastReindex = NoSnapshot
  /\ InitNoSearch
  /\ InitNoEmbed
  /\ InitNoConfig

\* a file of the directory is created or rewritten
WriteFile(path, text) ==
  /\ run.op = "idle"
  /\ fs[path] # text
  /\ fs' = [fs EXCEPT ![path] = text]
  /\ result' = NoResult
  /\ lastReindex' = NoSnapshot
  /\ UNCHANGED <<db, config, run>>

\* a file of the directory is deleted
RemoveFile(path) ==
  /\ run.op = "idle"
  /\ fs[path] # Missing
  /\ fs' = [fs EXCEPT ![path] = Missing]
  /\ result' = NoResult
  /\ lastReindex' = NoSnapshot
  /\ UNCHANGED <<db, config, run>>

\* indexDocuments up to its loop
IndexStart ==
  /\ run.op = "idle"
  /\ db.chunks_seq + RowidsNeeded(fs) <= MaxIndexRowid
  /\ run' = [NoRun EXCEPT !.op = "indexDocuments", !.pc = "file",
                          !.files = DiscoveredFiles(fs), !.walked = TRUE,
                          !.i = 1, !.pre = db, !.handle = "open"]
  /\ result' = NoResult
  /\ lastReindex' = NoSnapshot
  /\ UNCHANGED <<db, fs, config>>

\* a function that reads the indexed sources first
ReindexEntryReading == "read"

\* the first statement of reindexDocuments after the store is opened:
\* const files = getAllFiles(directory, extensions, ignorePatterns)
ReindexEntry == "walk"

\* reindexDocuments is called: getConfig() and new VectorStore()
ReindexStart ==
  /\ run.op = "idle"
  /\ db.chunks_seq + RowidsNeeded(fs) <= MaxIndexRowid
  /\ run' = [NoRun EXCEPT !.op = "reindexDocuments", !.pc = ReindexEntry,
                          !.pre = db, !.prev = lastReindex, !.handle = "open"]
  /\ result' = NoResult
  /\ lastReindex' = NoSnapshot
  /\ UNCHANGED <<db, fs, config>>

\* const files = getAllFiles(directory, extensions, ignorePatterns)
WalkDirectory ==
  /\ run.pc = "walk"
  /\ run' = [run EXCEPT !.files = DiscoveredFiles(fs), !.walked = TRUE,
                        !.pc = IF run.sourcesRead THEN "removal" ELSE "read"]
  /\ UNCHANGED <<db, fs, config, result, lastReindex>>

\* const existingFiles = new Set(vectorStore.getAllFiles())
ReadIndexedSources ==
  /\ run.pc = "read"
  /\ run' = [run EXCEPT !.existingFiles = getAllFiles(db), !.sourcesRead = TRUE,
                        !.pc = IF run.walked THEN "removal" ELSE "walk"]
  /\ UNCHANGED <<db, fs, config, result, lastReindex>>

\* the first loop: the sources whose file is gone are removed
RemoveDeleted ==
  /\ run.pc = "removal"
  /\ LET removed == {f \in run.existingFiles : FileMissing(fs, f)}
     IN /\ db' = RemoveDeletedFiles(db, removed)
        /\ run' = [run EXCEPT !.pc = "file", !.i = 1,
                              !.filesUpdated = Cardinality(removed),
                              !.removed = removed]
  /\ UNCHANGED <<fs, config, result, lastReindex>>

\* a run that leaves the old chunks in place until the new ones are inserted
DeleteOldChunksLater(d, isReindex, existingFiles, relativePath) == d

\* a pipeline that clears a source before it indexes it, in both functions
DeleteOldChunksAlways(d, isReindex, existingFiles, relativePath) ==
  deleteChunksByFile(d, relativePath)

\* if (existingFiles.has(relativePath)) vectorStore.deleteChunksByFile(relativePath)
DeleteOldChunks(d, isReindex, existingFiles, relativePath) ==
  IF isReindex /\ relativePath \in existingFiles
  THEN deleteChunksByFile(d, relativePath)
  ELSE d

\* one iteration of for (const filePath of files), up to the await
ProcessFile ==
  /\ run.pc = "file"
  /\ run.i <= Len(run.files)
  /\ LET relativePath == run.files[run.i]
         isReindex == run.op = "reindexDocuments"
         chunks == ChunksOf(fs[relativePath])
     IN IF isReindex /\ ~NeedsUpdate(run.existingFiles, relativePath)
        THEN /\ run' = [run EXCEPT !.i = @ + 1]
             /\ UNCHANGED db
        ELSE /\ db' = DeleteOldChunks(db, isReindex, run.existingFiles, relativePath)
             /\ LET deleted == IF isReindex /\ relativePath \in run.existingFiles
                               THEN run.deleted \cup {relativePath}
                               ELSE run.deleted
                IN run' = IF Len(chunks) = 0
                          THEN [run EXCEPT !.i = @ + 1, !.deleted = deleted]
                          ELSE [run EXCEPT !.pc = "await", !.chunks = chunks,
                                           !.deleted = deleted,
                                           !.embedded = @ \cup {relativePath}]
  /\ UNCHANGED <<fs, config, result, lastReindex>>

\* a run that undoes its writes when it fails
RejectionUndoingRun(d, atStart) == atStart

\* the rejection of the awaited request leaves the function: no catch, no
\* transaction around the loop, the database stays as the run has left it
Rejection(d, atStart) == d

\* await generateEmbeddings(chunks) settles: the chunks are inserted, or the
\* rejection ends the run
EmbeddingsSettled ==
  /\ run.pc = "await"
  /\ \E ok \in BOOLEAN :
       IF ok
       THEN LET relativePath == run.files[run.i]
                batch == documentChunks(relativePath, run.chunks,
                                        generateEmbeddings(run.chunks))
            IN /\ db' = insertChunks(db, batch)
               /\ run' = [run EXCEPT
                            !.pc = "file", !.i = @ + 1, !.chunks = <<>>,
                            !.totalChunks = @ + Len(batch),
                            !.filesUpdated = IF run.op = "reindexDocuments"
                                             THEN @ + 1 ELSE @,
                            !.updated = IF run.op = "reindexDocuments"
                                        THEN @ \cup {relativePath} ELSE @]
               /\ UNCHANGED result
       ELSE /\ run' = NoRun
            /\ result' = [NoResult EXCEPT
                            !.op = run.op, !.status = "throw",
                            !.files = run.files, !.pre = run.pre,
                            !.removed = run.removed, !.deleted = run.deleted,
                            !.embedded = run.embedded, !.updated = run.updated,
                            !.handle = run.handle, !.failed = run.i,
                            !.error = "embedding request failed"]
            /\ db' = Rejection(db, run.pre)
  /\ UNCHANGED <<fs, config, lastReindex>>

\* the loop is over: vectorStore.close() and the counts are returned
ReturnCounts ==
  /\ run.pc = "file"
  /\ run.i > Len(run.files)
  /\ result' = [op |-> run.op, status |-> "ok", filesProcessed |-> Len(run.files),
                filesUpdated |-> run.filesUpdated, chunksCreated |-> run.totalChunks,
                files |-> run.files, pre |-> run.pre, removed |-> run.removed,
                prev |-> run.prev, deleted |-> run.deleted,
                embedded |-> run.embedded, updated |-> run.updated,
                handle |-> "closed", failed |-> 0, error |-> ""]
  /\ lastReindex' = IF run.op = "reindexDocuments" THEN Snapshot(db) ELSE NoSnapshot
  /\ run' = NoRun
  /\ UNCHANGED <<db, fs, config>>

NextIndex ==
  \/ \E path \in Files : \E text \in FileTexts :
       WriteFile(path, text) /\ UNCHANGED <<storeCallVars, chunkerVars, clientVars>>
  \/ \E path \in Files : RemoveFile(path) /\ UNCHANGED <<storeCallVars, chunkerVars, clientVars>>
  \/ IndexStart /\ UNCHANGED <<storeCallVars, chunkerVars, clientVars>>
  \/ ReindexStart /\ UNCHANGED <<storeCallVars, chunkerVars, clientVars>>
  \/ WalkDirectory /\ UNCHANGED <<storeCallVars, chunkerVars, clientVars>>
  \/ ReadIndexedSources /\ UNCHANGED <<storeCallVars, chunkerVars, clientVars>>
  \/ RemoveDeleted /\ UNCHANGED <<storeCallVars, chunkerVars, clientVars>>
  \/ ProcessFile /\ UNCHANGED <<storeCallVars, chunkerVars, clientVars>>
  \/ EmbeddingsSettled /\ UNCHANGED <<storeCallVars, chunkerVars, clientVars>>
  \/ ReturnCounts /\ UNCHANGED <<storeCallVars, chunkerVars, clientVars>>

SpecIndex == InitIndex /\ [][NextIndex]_vars

(***************************************************************************)
(* The configuration module.                                               *)
(***************************************************************************)
\* !value
Falsy(value) ==
  \/ value.type = "undefined"
  \/ value.type = "string" /\ value.str = ""
  \/ value.type = "number" /\ value.num = 0

\* value || fallback
Or(value, fallback) == IF Falsy(value) THEN fallback ELSE value

\* { ...a, ...b }
Spread(a, b) ==
  [key \in (DOMAIN a) \cup (DOMAIN b) |-> IF key \in DOMAIN b THEN b[key] ELSE a[key]]

\* the loop of configure: the entries whose value is not undefined
FilteredConfig(partial) ==
  [key \in {k \in DOMAIN partial : partial[k] # Undefined} |-> partial[key]]

\* a configure that spreads its argument as it is given
configureUnfiltered(current, partial) == Spread(current, partial)

\* configure(config): the new userConfig
configure(current, partial) == Spread(current, FilteredConfig(partial))

\* DEFAULT_CONFIG, built on every read from process.env.OPENAI_API_KEY
DEFAULT_CONFIG(environment) ==
  [apiKey |-> Or(environment, Str("")),
   embeddingModel |-> Str("text-embedding-3-small"),
   dbPath |-> Str(".rag/sqlite.db"),
   chunkSize |-> Num(1000), chunkOverlap |-> Num(200), topK |-> Num(5)]

\* const config = { ...DEFAULT_CONFIG, ...userConfig }
MergedConfig(current, environment) == Spread(DEFAULT_CONFIG(environment), current)

\* if (!config.apiKey) throw
getConfigThrows(current, environment) ==
  Falsy(MergedConfig(current, environment).apiKey)

\* process.env.OPENAI_API_KEY: unset, empty, set
EnvKeys == {Undefined, Str(""), Str("sk-env")}

(***************************************************************************)
(* Reads and writes of the configuration, and the first statements of the  *)
(* three operations that read it.                                          *)
(***************************************************************************)
ConfiguredFields == {"apiKey", "chunkSize", "topK"}

\* the values a configure call gives a field
PartialValues(field) ==
  CASE field = "apiKey" -> {Undefined, Str(""), Str("sk-user")}
    [] field = "chunkSize" -> {Undefined, Num(500), Num(800)}
    [] field = "topK" -> {Undefined, Num(2)}

\* the arguments of configure: objects with some of the fields, a field
\* present with a value or with undefined
ConfigPartials ==
  UNION {{partial \in [keys -> UNION {PartialValues(f) : f \in keys}] :
            \A key \in keys : partial[key] \in PartialValues(key)} :
         keys \in SUBSET ConfiguredFields}

Operations == {"indexDocuments", "reindexDocuments", "queryRag"}

InitConfig ==
  /\ InitStore
  /\ chunkIn = NoChunkIn
  /\ chunkOut = NoChunkOut
  /\ steps = NoSteps
  /\ history = NoHistory
  /\ InitNoIndex
  /\ InitNoSearch
  /\ InitNoEmbed
  /\ userConfig = NoUserConfig
  /\ env \in EnvKeys
  /\ given = NothingGiven
  /\ got = NoGot

\* configure(partial)
Configure(partial) ==
  /\ userConfig' = configure(userConfig, partial)
  /\ given' =
       [last |-> [field \in Fields |->
                    IF field \in DOMAIN partial /\ partial[field] # Undefined
                    THEN partial[field] ELSE given.last[field]],
        kept |-> {field \in Fields :
                    \/ /\ field \in DOMAIN partial
                       /\ partial[field] = Undefined
                       /\ given.last[field] # Undefined
                    \/ /\ field \in given.kept
                       /\ ~(field \in DOMAIN partial /\ partial[field] # Undefined)}]
  /\ got' = NoGot
  /\ UNCHANGED env

\* process.env.OPENAI_API_KEY is set, emptied or deleted
SetEnv(value) ==
  /\ env # value
  /\ env' = value
  /\ got' = NoGot
  /\ UNCHANGED <<userConfig, given>>

\* getConfig()
CallGetConfig ==
  /\ got' = IF getConfigThrows(userConfig, env)
            THEN [NoGot EXCEPT !.status = "throw", !.op = "getConfig"]
            ELSE [NoGot EXCEPT !.status = "ok", !.op = "getConfig",
                               !.config = MergedConfig(userConfig, env)]
  /\ UNCHANGED <<userConfig, env, given>>

\* an operation that opens the store before it reads the configuration
EnterOpeningFirst(op) ==
  /\ got' = IF getConfigThrows(userConfig, env)
            THEN [NoGot EXCEPT !.status = "throw", !.op = op, !.opened = TRUE]
            ELSE [NoGot EXCEPT !.status = "ok", !.op = op,
                               !.config = MergedConfig(userConfig, env),
                               !.opened = op # "queryRag",
                               !.requested = op = "queryRag"]
  /\ UNCHANGED <<userConfig, env, given>>

\* indexDocuments, reindexDocuments or queryRag is called: const config =
\* getConfig() is its first statement; the next one opens the store (new
\* VectorStore()) or issues the embedding request (await generateEmbedding)
Enter(op) ==
  /\ got' = IF getConfigThrows(userConfig, env)
            THEN [NoGot EXCEPT !.status = "throw", !.op = op]
            ELSE [NoGot EXCEPT !.status = "ok", !.op = op,
                               !.config = MergedConfig(userConfig, env),
                               !.opened = op # "queryRag",
                               !.requested = op = "queryRag"]
  /\ UNCHANGED <<userConfig, env, given>>

ConfigUnchanged ==
  UNCHANGED <<storeVars, chunkerVars, indexVars, searchVars, embedVars, historyVars>>

NextConfig ==
  \/ \E partial \in ConfigPartials : Configure(partial) /\ ConfigUnchanged
  \/ \E value \in EnvKeys : SetEnv(value) /\ ConfigUnchanged
  \/ CallGetConfig /\ ConfigUnchanged
  \/ \E op \in Operations : Enter(op) /\ ConfigUnchanged

SpecConfig == InitConfig /\ [][NextConfig]_vars

(***************************************************************************)
(* Searches.  The store methods are called one after the other and run to  *)
(* completion; chunks are the ones the pipeline makes (hash =              *)
(* hashContent(content)), with embeddings in several directions so that    *)
(* distances differ and tie.                                               *)
(***************************************************************************)
SearchContents == {<<"x">>, <<"y">>}

SearchEmbeddings == {<<1, 0>>, <<1, 1>>}

SearchChunks ==
  {[filePath |-> f, content |-> c, hash |-> hashContent(c), embedding |-> e] :
     f \in Files, c \in SearchContents, e \in SearchEmbeddings \cup {NoEmbedding}}

\* the rows of the SQL query of similaritySearch, before results.map
SearchRows(d, queryEmbedding, topK) ==
  Limit(OrderByDistance(JoinedRows(d, queryEmbedding)), topK)

\* the process has a key in its environment, or has none
InitSearch ==
  /\ InitStore
  /\ chunkIn = NoChunkIn
  /\ chunkOut = NoChunkOut
  /\ steps = NoSteps
  /\ history = NoHistory
  /\ InitNoIndex
  /\ InitNoSearch
  /\ InitNoEmbed
  /\ userConfig = NoUserConfig
  /\ env \in {Undefined, Str("sk-env")}
  /\ given = NothingGiven
  /\ got = NoGot

\* new VectorStore() reads the configuration before it opens the database
CanOpenStore == ~getConfigThrows(userConfig, env)

\* insertChunk(chunk) returns
SearchInsertChunk(chunk) ==
  /\ rag.pc = "idle"
  /\ CanOpenStore
  /\ db.chunks_seq < MaxSearchRowid
  /\ db' = insertChunk(db, chunk)
  /\ search' = NoSearch
  /\ rag' = NoRag

\* deleteChunksByFile(filePath) returns
SearchDeleteChunksByFile(filePath) ==
  /\ rag.pc = "idle"
  /\ CanOpenStore
  /\ fileExists(db, filePath)
  /\ db' = deleteChunksByFile(db, filePath)
  /\ search' = NoSearch
  /\ rag' = NoRag

\* similaritySearch(queryEmbedding, topK) returns
CallSimilaritySearch(queryEmbedding, topK) ==
  /\ rag.pc = "idle"
  /\ CanOpenStore
  /\ search' = [status |-> "ok", queryEmbedding |-> queryEmbedding, topK |-> topK,
                rows |-> SearchRows(db, queryEmbedding, topK),
                results |-> similaritySearch(db, queryEmbedding, topK)]
  /\ rag' = NoRag
  /\ UNCHANGED db

\* the questions asked, and the vector the embedding API returns for each
Questions == {"east", "north"}

QuestionEmbedding(question) ==
  CASE question = "east" -> <<1, 0>>
    [] question = "north" -> <<0, 1>>

\* options?.topK as the caller gives it
TopKOptions == {Undefined} \cup {Num(n) : n \in 0..MaxTopK}

\* tables that are dropped and created again
initTablesRecreating(d) == EmptyDb

\* initTables on a store whose tables exist: CREATE ... IF NOT EXISTS
initTables(d) == d

\* the decimal digits of a label
Numerals == <<"1", "2", "3", "4", "5", "6", "7", "8", "9">>

\* `[${idx + 1}] ${chunk.content}`, idx counting from 0
LabelChunk(chunk, idx) == <<"[", Numerals[idx + 1], "]", " ">> \o chunk.content

\* parts.join('\n\n')
RECURSIVE JoinBlankLine(_)
JoinBlankLine(parts) ==
  IF parts = <<>> THEN <<>>
  ELSE IF Len(parts) = 1 THEN parts[1]
  ELSE parts[1] \o <<"\n", "\n">> \o JoinBlankLine(Tail(parts))

\* contextChunks.map(...).join('\n\n')
ContextText(contextChunks) ==
  JoinBlankLine([i \in 1..Len(contextChunks) |-> LabelChunk(contextChunks[i], i - 1)])

\* citations that keep every occurrence
KeepDuplicates(items) == items

\* [...new Set(items)]: insertion order, the first occurrence of each
RECURSIVE NewSet(_)
NewSet(items) ==
  IF items = <<>> THEN <<>>
  ELSE LET rest == NewSet(SubSeq(items, 1, Len(items) - 1))
           last == items[Len(items)]
       IN IF \E i \in 1..Len(rest) : rest[i] = last THEN rest ELSE Append(rest, last)

\* queryRag(question, {topK}) up to await generateEmbedding(question)
CallQueryRag(question, topKOption) ==
  /\ rag.pc = "idle"
  /\ rag' = IF getConfigThrows(userConfig, env)
            THEN [NoRag EXCEPT !.status = "throw", !.question = question,
                               !.pre = db, !.error = "OpenAI API key not found"]
            ELSE [NoRag EXCEPT
                    !.pc = "embedding", !.question = question, !.pre = db,
                    !.topK = Or(topKOption, MergedConfig(userConfig, env).topK).num,
                    !.requested = TRUE]
  /\ search' = NoSearch
  /\ UNCHANGED db

\* the embedding request settles, and queryRag runs to its end: the store is
\* opened and searched (the search may throw), closed, and the answer built
QueryRagResumes ==
  /\ rag.pc = "embedding"
  /\ \E outcome \in {"embedding fails", "search fails", "returns"} :
       CASE outcome = "embedding fails" ->
              /\ rag' = [rag EXCEPT !.pc = "idle", !.status = "throw",
                                    !.error = "embedding request failed"]
              /\ UNCHANGED db
         [] outcome = "search fails" ->
              /\ rag' = [rag EXCEPT !.pc = "idle", !.status = "throw",
                                    !.handle = "open", !.error = "SQLITE_ERROR"]
              /\ db' = initTables(db)
         [] outcome = "returns" ->
              LET queryEmbedding == QuestionEmbedding(rag.question)
                  opened == initTables(db)
                  contextChunks == similaritySearch(opened, queryEmbedding, rag.topK)
                  filePaths == [i \in 1..Len(contextChunks) |-> contextChunks[i].filePath]
              IN /\ rag' = [rag EXCEPT !.pc = "idle", !.status = "ok",
                                       !.handle = "closed",
                                       !.context = contextChunks,
                                       !.text = ContextText(contextChunks),
                                       !.citations = NewSet(filePaths)]
                 /\ db' = opened
  /\ UNCHANGED search

SearchUnchanged ==
  UNCHANGED <<storeCallVars, chunkerVars, indexVars, embedVars, configVars, historyVars>>

NextSearch ==
  \/ \E chunk \in SearchChunks : SearchInsertChunk(chunk) /\ SearchUnchanged
  \/ \E filePath \in Files : SearchDeleteChunksByFile(filePath) /\ SearchUnchanged
  \/ \E queryEmbedding \in QueryVectors : \E topK \in 1..MaxTopK :
       CallSimilaritySearch(queryEmbedding, topK) /\ SearchUnchanged
  \/ \E question \in Questions : \E topKOption \in TopKOptions :
       CallQueryRag(question, topKOption) /\ SearchUnchanged
  \/ QueryRagResumes /\ SearchUnchanged

SpecSearch == InitSearch /\ [][NextSearch]_vars

(***************************************************************************)
(* reindexDocuments with queryRag calls made while a run is suspended at   *)
(* await generateEmbeddings(chunks): the two are async functions of one    *)
(* process, and the query runs while the run waits.                        *)
(***************************************************************************)
\* options?.topK of the interleaved queries
AwaitTopKOptions == {Undefined, Num(1)}

\* queryRag is called while the run is suspended
QueryAtAwait(question, topKOption) ==
  /\ run.pc = "await"
  /\ CallQueryRag(question, topKOption)

IndexUnchanged == UNCHANGED <<storeCallVars, chunkerVars, clientVars>>

NextReindexQuery ==
  \/ \E path \in Files : \E text \in FileTexts : WriteFile(path, text) /\ IndexUnchanged
  \/ \E path \in Files : RemoveFile(path) /\ IndexUnchanged
  \/ db.chunks_seq + RowidsNeeded(fs) <= MaxAwaitRowid /\ ReindexStart /\ IndexUnchanged
  \/ WalkDirectory /\ IndexUnchanged
  \/ ReadIndexedSources /\ IndexUnchanged
  \/ RemoveDeleted /\ IndexUnchanged
  \/ ProcessFile /\ IndexUnchanged
  \/ EmbeddingsSettled /\ IndexUnchanged
  \/ ReturnCounts /\ IndexUnchanged
  \/ \E question \in Questions : \E topKOption \in AwaitTopKOptions :
       QueryAtAwait(question, topKOption) /\ SearchUnchanged
  \/ QueryRagResumes /\ SearchUnchanged

SpecReindexQuery == InitIndex /\ [][NextReindexQuery]_vars

(***************************************************************************)
(* Runs of indexDocuments only, over a directory whose files are rewritten *)
(* between the runs.  history records, for every source, the contents a    *)
(* run has inserted the chunks of.                                         *)
(***************************************************************************)
\* contents a file is rewritten with
RewrittenTexts == {<<"a", ".", " ", "a", ".">>, <<"a", ".">>, <<"a">>, <<" ">>}

\* the chunks of the file have been inserted: its content is recorded
IndexedFileSettled ==
  /\ run.op = "indexDocuments"
  /\ EmbeddingsSettled
  /\ history' = IF run'.op = "indexDocuments"
                THEN [history EXCEPT ![run.files[run.i]] = @ \cup {fs[run.files[run.i]]}]
                ELSE history
  /\ UNCHANGED <<storeCallVars, chunkerVars, searchVars, embedVars, configVars>>

NextIndexOnly ==
  \/ \E path \in Files : \E text \in RewrittenTexts : WriteFile(path, text) /\ IndexUnchanged
  \/ \E path \in Files : RemoveFile(path) /\ IndexUnchanged
  \/ db.chunks_seq + RowidsNeeded(fs) <= MaxRepeatRowid /\ IndexStart /\ IndexUnchanged
  \/ ProcessFile /\ IndexUnchanged
  \/ IndexedFileSettled
  \/ ReturnCounts /\ IndexUnchanged

SpecIndexOnly == InitIndex /\ [][NextIndexOnly]_vars

(***************************************************************************)
(* generateEmbeddings: one request per batch, each awaited before the next *)
(* is made.  The API answers a request with one vector per input, in       *)
(* order, or the request fails.                                            *)
(***************************************************************************)
BATCH_SIZE == 100

\* the texts of the lists given to generateEmbeddings
TextCycle == << <<"a">>, <<".">>, <<"a", ".">> >>

\* a list of n texts, no two neighbours equal
TextList(n, shift) == [i \in 1..n |-> TextCycle[((i + shift) % 3) + 1]]

\* response.data.map(item => new Float32Array(item.embedding))
BatchEmbeddings(batch) == [k \in 1..Len(batch) |-> Embedding(batch[k])]

\* a loop that steps over one text between two batches
NextBatchSkipping(i) == i + BATCH_SIZE + 1

\* i += BATCH_SIZE
NextBatch(i) == i + BATCH_SIZE

InitEmbed ==
  /\ InitStore
  /\ chunkIn = NoChunkIn
  /\ chunkOut = NoChunkOut
  /\ steps = NoSteps
  /\ history = NoHistory
  /\ InitNoIndex
  /\ InitNoSearch
  /\ \E n \in 0..MaxTexts : \E shift \in 0..2 :
       embed = [NoEmbed EXCEPT !.texts = TextList(n, shift)]
  /\ InitNoConfig

\* the for loop up to the await of the request for texts.slice(i, i + BATCH_SIZE),
\* or the return when i is past the end
EmbedLoop(e) ==
  IF e.i < Len(e.texts)
  THEN [e EXCEPT !.pc = "await",
                 !.requests = Append(@, Slice(e.texts, e.i, e.i + BATCH_SIZE))]
  ELSE [e EXCEPT !.pc = "idle", !.status = "ok", !.returned = e.allEmbeddings]

\* generateEmbeddings(texts) is called with the texts of embed
CallGenerateEmbeddings ==
  /\ embed.pc = "idle"
  /\ embed.status = "none"
  /\ embed' = EmbedLoop(embed)

\* the awaited request settles: the response is appended and the loop goes
\* on, or the rejection is thrown to the caller
EmbeddingsResponse ==
  /\ embed.pc = "await"
  /\ \E ok \in BOOLEAN :
       IF ok
       THEN LET batch == embed.requests[Len(embed.requests)]
            IN embed' = EmbedLoop([embed EXCEPT
                                     !.allEmbeddings = @ \o BatchEmbeddings(batch),
                                     !.i = NextBatch(@)])
       ELSE embed' = [embed EXCEPT !.pc = "idle", !.status = "throw",
                                   !.returned = <<>>]

EmbedUnchanged ==
  UNCHANGED <<storeVars, chunkerVars, indexVars, searchVars, configVars, historyVars>>

NextEmbed ==
  \/ CallGenerateEmbeddings /\ EmbedUnchanged
  \/ EmbeddingsResponse /\ EmbedUnchanged

SpecEmbed == InitEmbed /\ [][NextEmbed]_vars

(***************************************************************************)
(* Claims about the store, checked under Spec.                             *)
(***************************************************************************)
Referenced(d, v) == \E c \in d.chunks : c.vec_rowid = v.rowid

InsertReturned == ret.status = "ok" /\ ret.op \in {"insertChunk", "insertChunks"}

\* C1: when an insertChunk / insertChunks call returns, every vec_chunks row
\* that the call wrote, or that a chunks row referenced before the call, is
\* referenced by the vec_rowid of some chunks row: a replacement leaves no
\* orphaned vector behind, also when the duplicate is inside one batch.
C1_NoOrphanedVectors ==
  InsertReturned =>
    \A v \in db.vec_chunks :
      (v.rowid > ret.pre.vec_seq \/ Referenced(ret.pre, v)) => Referenced(db, v)

RowsOfFile(d, filePath) == {c \in d.chunks : c.file_path = filePath}

VecRowsOfFile(d, filePath) ==
  {v \in d.vec_chunks : \E c \in RowsOfFile(d, filePath) : c.vec_rowid = v.rowid}

\* C2: however deleteChunksByFile(filePath) ends (return or throw), either all
\* chunk rows of the file and all their vector rows are gone or none are, and
\* no chunk row is left whose non-null vec_rowid names a deleted vector row.
C2_DeleteAtomic ==
  ret.op = "deleteChunksByFile" /\ ret.status # "none" =>
    /\ \/ /\ RowsOfFile(db, ret.filePath) = {}
          /\ VecRowsOfFile(ret.pre, ret.filePath) \cap db.vec_chunks = {}
       \/ /\ RowsOfFile(db, ret.filePath) = RowsOfFile(ret.pre, ret.filePath)
          /\ VecRowsOfFile(ret.pre, ret.filePath) \subseteq db.vec_chunks
    /\ \A c \in db.chunks :
         c.vec_rowid # NULL => \E v \in db.vec_chunks : v.rowid = c.vec_rowid

NewChunkRows(d, pre) == {c \in d.chunks : c.id > pre.chunks_seq}

NewVecRows(d, pre) == {v \in d.vec_chunks : v.rowid > pre.vec_seq}

Key(filePath, hash) == <<filePath, hash>>

\* C3: insertChunks is atomic.  While the call runs, no other connection sees
\* a row of the batch; when it throws, the database is the one the call
\* started from; when it returns, every chunk of the batch is stored.
C3_InsertChunksAtomic ==
  /\ call.op = "insertChunks" =>
       NewChunkRows(Committed, call.pre) = {} /\ NewVecRows(Committed, call.pre) = {}
  /\ ret.op = "insertChunks" /\ ret.status = "throw" => db = ret.pre
  /\ ret.op = "insertChunks" /\ ret.status = "ok" =>
       {Key(c.file_path, c.hash) : c \in NewChunkRows(db, ret.pre)} =
         {Key(ret.batch[i].filePath, ret.batch[i].hash) : i \in 1..Len(ret.batch)}

\* a batch failed after its first chunk had been written inside the transaction
C3_Witness ==
  ret.op = "insertChunks" /\ ret.status = "throw" /\ ret.at >= 2 /\ ret.pre.chunks # {}

\* C4: right after deleteChunksByFile(s) returns, fileExists(s) is false,
\* getAllFiles() does not contain s and no search result has filePath s,
\* for every query vector and every topK.
C4_DeleteComplete ==
  ret.op = "deleteChunksByFile" /\ ret.status = "ok" =>
    /\ ~fileExists(db, ret.filePath)
    /\ ret.filePath \notin getAllFiles(db)
    /\ \A q \in QueryVectors : \A topK \in 0..MaxTopK :
         \A i \in 1..Len(similaritySearch(db, q, topK)) :
           similaritySearch(db, q, topK)[i].filePath # ret.filePath

\* a delete returned for a file that had embedded chunks, and the search
\* still returns chunks of another file
C4_Witness ==
  /\ ret.op = "deleteChunksByFile" /\ ret.status = "ok"
  /\ VecRowsOfFile(ret.pre, ret.filePath) # {}
  /\ Cardinality(RowsOfFile(ret.pre, ret.filePath)) >= 2
  /\ \E q \in QueryVectors : Len(similaritySearch(db, q, MaxTopK)) >= 1

\* C5: no two chunk rows share (file_path, hash); an insertChunk of a stored
\* (filePath, hash) leaves one row, the new one, and no call ends in a
\* duplicate-key error.
C5_UniqueSourceFingerprint ==
  /\ \A c1, c2 \in db.chunks :
       c1.file_path = c2.file_path /\ c1.hash = c2.hash => c1 = c2
  /\ ret.error # "SQLITE_CONSTRAINT_UNIQUE"
  /\ ret.op = "insertChunk" /\ ret.status = "ok" =>
       \E c \in db.chunks :
         /\ c.id = db.chunks_seq
         /\ c.id > ret.pre.chunks_seq
         /\ c.file_path = ret.batch[1].filePath
         /\ c.hash = ret.batch[1].hash
         /\ c.content = ret.batch[1].content

\* an insertChunk returned for a (filePath, hash) that was already stored
C5_Witness ==
  /\ ret.op = "insertChunk" /\ ret.status = "ok"
  /\ Conflicts(ret.pre, ret.batch[1].filePath, ret.batch[1].hash) # {}

\* C6 as stated: getChunkCount() is the number of chunks passed to successful
\* inserts minus the number of chunk rows removed by deletes.
C6_CountInsertedMinusDeleted ==
  call.op = "idle" => getChunkCount(db) = nInserted - nDeleted

\* C6 amended: getChunkCount() is the number of chunks passed to successful
\* inserts, minus the rows those inserts replaced, minus the rows removed by
\* deletes.
C6_CountMinusReplaced ==
  call.op = "idle" => getChunkCount(db) = nInserted - nReplaced - nDeleted

\* chunks were inserted, one replaced a stored row, one was deleted, one is left
C6_Witness ==
  call.op = "idle" /\ nReplaced >= 1 /\ nDeleted >= 1 /\ getChunkCount(db) >= 1

(***************************************************************************)
(* Claims about chunkText, checked under SpecChunk.                        *)
(***************************************************************************)
IsPrefix(p, str) == Len(p) <= Len(str) /\ SubSeq(str, 1, Len(p)) = p

\* the last n characters of str, all of it when it is shorter
LastChars(str, n) ==
  IF n >= Len(str) THEN str ELSE SubSeq(str, Len(str) - n + 1, Len(str))

\* C7: every chunk chunkText returns has length <= chunkSize, except the
\* windows of a character-split unit, which have length exactly chunkSize
\* except possibly the last window of the unit (which is no longer either).
C7_ChunkLengthBound ==
  chunkOut.done =>
    \A i \in 1..Len(chunkOut.chunks) :
      IF chunkOut.tags[i].kind = "character"
      THEN \/ Len(chunkOut.chunks[i]) = chunkIn.chunkSize
           \/ chunkOut.tags[i].last /\ Len(chunkOut.chunks[i]) <= chunkIn.chunkSize
      ELSE Len(chunkOut.chunks[i]) <= chunkIn.chunkSize

\* C8 as stated: for adjacent chunks (c_i, c_i+1) with c_i+1 produced by
\* sentence accumulation and chunkOverlap > 0, the last chunkOverlap
\* characters of c_i, a space and the next sentence unit are a prefix of c_i+1.
C8_OverlapPrefix ==
  chunkOut.done /\ chunkIn.chunkOverlap > 0 =>
    \A i \in 1..(Len(chunkOut.chunks) - 1) :
      chunkOut.tags[i + 1].kind = "sentence" =>
        IsPrefix(LastChars(chunkOut.chunks[i], chunkIn.chunkOverlap) \o <<" ">> \o
                   chunkOut.tags[i + 1].unit,
                 chunkOut.chunks[i + 1])

\* C8 amended: when c_i and c_i+1 are both produced by sentence accumulation
\* and chunkOverlap > 0, the last chunkOverlap characters of c_i with leading
\* whitespace removed are a prefix of c_i+1, followed (when the next sentence
\* unit is not empty) by one space and that unit, less its trailing
\* whitespace; a sentence chunk that follows a character window starts with
\* its unit and carries no overlap.
C8_OverlapPrefixTrimmed ==
  chunkOut.done /\ chunkIn.chunkOverlap > 0 =>
    \A i \in 1..(Len(chunkOut.chunks) - 1) :
      LET prev == chunkOut.chunks[i]
          next == chunkOut.chunks[i + 1]
          tag == chunkOut.tags[i + 1]
          overlap == TrimStart(LastChars(prev, chunkIn.chunkOverlap))
          unit == TrimEnd(tag.unit)
      IN /\ chunkOut.tags[i].kind = "sentence" /\ tag.kind = "sentence" =>
              /\ tag.seeded
              /\ overlap # <<>>
              /\ IF unit = <<>> THEN next = overlap
                 ELSE IsPrefix(overlap \o <<" ">> \o unit, next)
         /\ chunkOut.tags[i].kind = "character" /\ tag.kind = "sentence" =>
              ~tag.seeded /\ IsPrefix(unit, next)

\* a seeded chunk whose seed started with whitespace that the trim removed
C8_Witness ==
  /\ chunkOut.done
  /\ \E i \in 1..(Len(chunkOut.chunks) - 1) :
       /\ chunkOut.tags[i].kind = "sentence"
       /\ chunkOut.tags[i + 1].seeded
       /\ chunkOut.tags[i + 1].unit # <<>>
       /\ IsSpace(Head(LastChars(chunkOut.chunks[i], chunkIn.chunkOverlap)))

(***************************************************************************)
(* Claims about the indexing pipeline, checked under SpecIndex.            *)
(***************************************************************************)
ReindexReturned == result.op = "reindexDocuments" /\ result.status = "ok"

\* indexed sources whose file was gone when the run that returned started
GoneSources == {A \in getAllFiles(result.pre) : fs[A] = Missing}

\* C9: when reindexDocuments returns, for every source A that was indexed
\* when the run started and whose file no longer exists, fileExists(A) is
\* false, no vector row that was paired with a chunk of A remains, and the
\* returned filesUpdated is at least 1.
C9_DeletedSourcesRemoved ==
  ReindexReturned =>
    \A A \in GoneSources :
      /\ ~fileExists(db, A)
      /\ \A v \in VecRowsOfFile(result.pre, A) :
           \A w \in db.vec_chunks : w.rowid # v.rowid
      /\ result.filesUpdated >= 1

\* a reindex returned after removing a deleted source that had vector rows
C9_Witness ==
  /\ ReindexReturned
  /\ \E A \in GoneSources : VecRowsOfFile(result.pre, A) # {}

Range(seq) == {seq[i] : i \in 1..Len(seq)}

\* C10: when reindexDocuments returns, the chunk rows of each discovered
\* source hold exactly the chunks of the file's current content, and when the
\* run is the second of two successive runs over an unchanged directory, the
\* set of (filePath, content, hash) rows, getChunkCount() and the number of
\* vector rows are the same as after the first run.
C10_ReindexIdempotent ==
  ReindexReturned =>
    /\ \A i \in 1..Len(result.files) :
         {c.content : c \in RowsOfFile(db, result.files[i])}
           = Range(ChunksOf(fs[result.files[i]]))
    /\ result.prev.valid =>
         /\ Snapshot(db).rows = result.prev.rows
         /\ Snapshot(db).count = result.prev.count
         /\ Snapshot(db).vectors = result.prev.vectors

\* sources the returned run discovered that were indexed when it started
AlreadyIndexed ==
  {result.files[i] : i \in 1..Len(result.files)} \cap getAllFiles(result.pre)

\* C11: when reindexDocuments returns from a run over a directory that has
\* not changed since the previous successful reindexDocuments run, no
\* discovered file that was already indexed has been deleted from the store,
\* re-embedded, or counted in filesUpdated.
C11_OnlyChangedFilesUpdated ==
  (ReindexReturned /\ result.prev.valid) =>
    /\ \A f \in AlreadyIndexed :
         /\ f \notin result.deleted
         /\ f \notin result.embedded
         /\ f \notin result.updated
    /\ result.filesUpdated = 0

(***************************************************************************)
(* Claims about searches, checked under SpecSearch.                        *)
(***************************************************************************)
Min(a, b) == IF a < b THEN a ELSE b

\* the vector row a row of the query was computed from
VecRowOf(row) == CHOOSE v \in db.vec_chunks : v.rowid = row.rowid

\* x is the number 1 - (1 - cos(a, b)), that is cos(a, b)
IsCosineOf(x, a, b) ==
  /\ x.k = 0
  /\ x.m = 1
  /\ ~CosineLess(x.cos, Cosine(a, b))
  /\ ~CosineLess(Cosine(a, b), x.cos)

\* C12: a similaritySearch(queryVector, k) call returns exactly
\* min(k, number of rows of vec_chunks) results, in order of non-decreasing
\* cosine distance to queryVector, each with similarity = 1 - distance.
C12_SearchSizeOrderSimilarity ==
  search.status = "ok" =>
    /\ Len(search.results) = Min(search.topK, Cardinality(db.vec_chunks))
    /\ \A i \in 1..Len(search.rows) : \A j \in 1..Len(search.rows) :
         i < j => ~DistanceLess(search.rows[j].distance, search.rows[i].distance)
    /\ \A i \in 1..Len(search.results) :
         IsCosineOf(search.results[i].similarity,
                    VecRowOf(search.rows[i]).embedding, search.queryEmbedding)

\* the same with the size counted over the vector rows a chunk row references
C12_OverReferencedRows ==
  search.status = "ok" =>
    /\ Len(search.results) =
         Min(search.topK, Cardinality({v \in db.vec_chunks : Referenced(db, v)}))
    /\ \A i \in 1..Len(search.rows) : \A j \in 1..Len(search.rows) :
         i < j => ~DistanceLess(search.rows[j].distance, search.rows[i].distance)
    /\ \A i \in 1..Len(search.results) :
         IsCosineOf(search.results[i].similarity,
                    VecRowOf(search.rows[i]).embedding, search.queryEmbedding)

(***************************************************************************)
(* Claims about generateEmbeddings, checked under SpecEmbed.               *)
(***************************************************************************)
\* the j-th consecutive slice of at most BATCH_SIZE texts
ConsecutiveSlice(texts, j) ==
  SubSeq(texts, (j - 1) * BATCH_SIZE + 1, Min(j * BATCH_SIZE, Len(texts)))

\* C13: generateEmbeddings issues its requests one after another, the j-th
\* for the j-th consecutive slice of at most 100 texts; when it returns it
\* returns one vector per text, the i-th being the embedding of the i-th
\* text; when a request fails the call fails and returns nothing.
C13_BatchingTransparent ==
  /\ \A j \in 1..Len(embed.requests) :
       /\ Len(embed.requests[j]) <= 100
       /\ Len(embed.requests[j]) >= 1
       /\ embed.requests[j] = ConsecutiveSlice(embed.texts, j)
  /\ embed.pc = "await" =>
       Len(embed.allEmbeddings) = (Len(embed.requests) - 1) * 100
  /\ embed.status = "ok" =>
       /\ Len(embed.returned) = Len(embed.texts)
       /\ \A i \in 1..Len(embed.texts) :
            embed.returned[i] = Embedding(embed.texts[i])
  /\ embed.status = "throw" => embed.returned = <<>>

\* a call whose texts took three requests returned
C13_Witness ==
  /\ embed.status = "ok"
  /\ Len(embed.texts) > BATCH_SIZE
  /\ Len(embed.requests) = 3

(***************************************************************************)
(* Claims about the exits of the operations.                               *)
(***************************************************************************)
\* C14: when indexDocuments, reindexDocuments or queryRag has ended, by a
\* return or by a throw, the store handle it opened is closed.  Nothing
\* closes a handle after the operation that owns it has ended, so a handle
\* open at the exit is never closed.
C14_HandleClosedOnEveryExit ==
  /\ result.status \in {"ok", "throw"} => result.handle # "open"
  /\ rag.status \in {"ok", "throw"} => rag.handle # "open"

\* rows of a source that the run that ended has inserted
InsertedRows(filePath) ==
  {c \in RowsOfFile(db, filePath) : c.id > result.pre.chunks_seq}

EmbeddingFailed ==
  result.status = "throw" /\ result.error = "embedding request failed"

\* C15: when indexDocuments or reindexDocuments has ended because the
\* embedding request of its i-th file failed, the error is the one thrown,
\* the run has inserted no chunk of the i-th or of a later file, and every
\* chunk of every earlier file is a row the run inserted.
C15_AbortKeepsEarlierFiles ==
  EmbeddingFailed =>
    /\ result.failed \in 1..Len(result.files)
    /\ \A k \in result.failed..Len(result.files) :
         InsertedRows(result.files[k]) = {}
    /\ \A k \in 1..(result.failed - 1) :
         {c.content : c \in InsertedRows(result.files[k])}
           = Range(ChunksOf(fs[result.files[k]]))

\* the request of the second file failed after the first file was inserted
C15_Witness ==
  /\ EmbeddingFailed
  /\ result.failed = 2
  /\ InsertedRows(result.files[1]) # {}

(***************************************************************************)
(* Claims about the configuration, checked under SpecConfig.               *)
(***************************************************************************)
\* the default of a field when the configuration is read
DefaultOf(field) ==
  CASE field = "apiKey" -> IF env = Undefined THEN Str("") ELSE env
    [] field = "embeddingModel" -> Str("text-embedding-3-small")
    [] field = "dbPath" -> Str(".rag/sqlite.db")
    [] field = "chunkSize" -> Num(1000)
    [] field = "chunkOverlap" -> Num(200)
    [] field = "topK" -> Num(5)

\* C16: the configuration getConfig() returns has, for each field, the value
\* of the most recent configure call that gave the field a value other than
\* undefined, and the default when no call did; a field passed as undefined
\* or left out keeps the value set before.
C16_LastDefinedValueWins ==
  (got.op = "getConfig" /\ got.status = "ok") =>
    /\ DOMAIN got.config = Fields
    /\ \A field \in Fields :
         got.config[field] = IF given.last[field] # Undefined
                             THEN given.last[field]
                             ELSE DefaultOf(field)

\* getConfig returned after a call that passed undefined for a field set
\* before, and after a field was set twice
C16_Witness ==
  /\ got.op = "getConfig"
  /\ got.status = "ok"
  /\ "chunkSize" \in given.kept
  /\ given.last["chunkSize"] = Num(800)
  /\ given.last["topK"] = Undefined

(***************************************************************************)
(* Claims about queryRag and the round trip, checked under SpecSearch.     *)
(***************************************************************************)
RagEnded == rag.status \in {"ok", "throw"}

\* C17: when queryRag has ended, by a return or by a throw, the chunk rows
\* and the vector rows of the store are the ones it held when queryRag was
\* called.
C17_QueryRagReadOnly ==
  (rag.pc = "embedding" \/ RagEnded) =>
    /\ db.chunks = rag.pre.chunks
    /\ db.vec_chunks = rag.pre.vec_chunks

\* queryRag returned chunks of a store that holds rows
C17_Witness ==
  /\ rag.status = "ok"
  /\ Len(rag.context) >= 1
  /\ db.chunks # {}

\* index of the first context chunk of a source
FirstOccurrence(filePath) ==
  CHOOSE i \in 1..Len(rag.context) :
    /\ rag.context[i].filePath = filePath
    /\ \A j \in 1..(i - 1) : rag.context[j].filePath # filePath

\* the first n context chunks, labelled and separated by blank lines
RECURSIVE LabelledBlocks(_)
LabelledBlocks(n) ==
  IF n = 0 THEN <<>>
  ELSE LabelledBlocks(n - 1)
         \o (IF n > 1 THEN <<"\n", "\n">> ELSE <<>>)
         \o <<"[", Numerals[n], "]", " ">> \o rag.context[n].content

IsOne(x) == x.k = 0 /\ x.m = 1 /\ x.cos.sgn = 1 /\ x.cos.num = x.cos.den

\* stored chunks whose embedding is the query vector of the last search
ChunksWithQueryVector ==
  {c \in db.chunks :
     \E v \in db.vec_chunks :
       v.rowid = c.vec_rowid /\ v.embedding = search.queryEmbedding}

\* result i of the last search is the chunk, with similarity 1
ReturnedAt(c, i) ==
  /\ search.results[i].content = c.content
  /\ search.results[i].filePath = c.file_path
  /\ IsOne(search.results[i].similarity)

\* C19: a similaritySearch(v, k), k >= 1, returns every stored chunk whose
\* embedding is v among its results, with similarity 1.
C19_RoundTrip ==
  search.status = "ok" =>
    \A c \in ChunksWithQueryVector :
      \E i \in 1..Len(search.results) : ReturnedAt(c, i)

\* vector rows referenced by a chunk row, at cosine distance 0 from the
\* query vector of the last search
ZeroDistanceRows ==
  {v \in db.vec_chunks :
     /\ Referenced(db, v)
     /\ IsOne(OneMinus(vec_distance_cosine(v.embedding, search.queryEmbedding)))}

\* C19 as the code has it: when a stored chunk has embedding v, the first
\* result of similaritySearch(v, k) has similarity 1, and the chunk is among
\* the results, with similarity 1, when k is at least the number of stored
\* chunks whose vector is at distance 0 from v.
C19_RoundTripWithinTies ==
  search.status = "ok" =>
    \A c \in ChunksWithQueryVector :
      /\ Len(search.results) >= 1
      /\ IsOne(search.results[1].similarity)
      /\ Cardinality(ZeroDistanceRows) <= search.topK =>
           \E i \in 1..Len(search.results) : ReturnedAt(c, i)

\* a search with k = 2 over two chunks stored with the query vector
C19_Witness ==
  /\ search.status = "ok"
  /\ search.topK = 2
  /\ Cardinality(ChunksWithQueryVector) = 2

(***************************************************************************)
(* Claims about the credential, checked under SpecConfig.                  *)
(***************************************************************************)
\* the apiKey in force: the configured one, else the one of the environment
ResolvedApiKey ==
  IF given.last["apiKey"] # Undefined THEN given.last["apiKey"]
  ELSE IF env = Undefined THEN Str("") ELSE env

\* C20: a read of the configuration, by getConfig() itself or as the first
\* statement of indexDocuments, reindexDocuments or queryRag, throws exactly
\* when the resolved apiKey is empty, and an operation that ends this way
\* has neither opened the store nor issued an embedding request.
C20_FailFastWithoutCredential ==
  got.status # "none" =>
    /\ got.status = "throw" <=> ResolvedApiKey = Str("")
    /\ got.status = "throw" => ~got.opened /\ ~got.requested

\* queryRag failed on a configured empty key although the environment has one
C20_Witness ==
  /\ got.op = "queryRag"
  /\ got.status = "throw"
  /\ given.last["apiKey"] = Str("")
  /\ env = Str("sk-env")

(***************************************************************************)
(* Claims about the loops of chunkText, checked under SpecChunkSteps.      *)
(***************************************************************************)
WellConfigured ==
  chunkIn.chunkSize >= 1 /\ 0 <= chunkIn.chunkOverlap /\ chunkIn.chunkOverlap < chunkIn.chunkSize

InWhile == steps.pc = "while"

\* C21: with chunkSize >= 1 and 0 <= chunkOverlap < chunkSize every chunkText
\* call returns, and every iteration of the while loop of splitByCharacter
\* increases start; with chunkOverlap >= chunkSize no iteration of that loop
\* increases start, so a loop that is entered (a unit longer than chunkSize)
\* is never left.
C21_TerminatesIffStridePositive ==
  /\ [][WellConfigured /\ InWhile /\ steps'.pc = "while" =>
          steps'.start > steps.start]_vars
  /\ (WellConfigured => <>(steps.pc = "returned"))
  /\ [][~WellConfigured /\ InWhile /\ steps'.pc = "while" =>
          steps'.start <= steps.start]_vars
  /\ [](~WellConfigured /\ InWhile => steps.start <= 0)
  /\ [][~WellConfigured /\ InWhile => steps'.pc = "while"]_vars

\* a call with a positive stride that split a unit in two or more windows
\* and returned
C21_Witness ==
  /\ WellConfigured
  /\ steps.pc = "returned"
  /\ \E i \in 1..Len(chunkOut.tags) :
       chunkOut.tags[i].kind = "character" /\ ~chunkOut.tags[i].last

\* a call with chunkOverlap >= chunkSize that went round the while loop
\* as often as the loop is followed
C21_StuckLoop ==
  ~WellConfigured /\ InWhile /\ steps.iterations = MaxIterations

\* the statement-by-statement execution returns what the chunkText operator
\* computes, and a loop that terminates is never cut short
C21_StepsAgree ==
  WellConfigured =>
    /\ InWhile => steps.iterations <= Len(steps.sentences[steps.i])
    /\ steps.pc = "returned" =>
         chunkOut.chunks = chunkText(chunkIn.text, chunkIn.chunkSize, chunkIn.chunkOverlap)

(***************************************************************************)
(* Claims about the counts reindexDocuments returns, under SpecIndex.      *)
(***************************************************************************)
\* the discovered files whose content yields at least one chunk
FilesWithChunks == {f \in Range(result.files) : ChunksOf(fs[f]) # <<>>}

\* chunks of the first n discovered files
RECURSIVE ChunksUpTo(_)
ChunksUpTo(n) ==
  IF n = 0 THEN 0 ELSE ChunksUpTo(n - 1) + Len(ChunksOf(fs[result.files[n]]))

Reindexing == run.op = "reindexDocuments"

\* C23 as stated: in every reindexDocuments run the indexed sources have been
\* read from the store by the time the directory has been enumerated.
C23_SourcesReadBeforeWalk ==
  Reindexing /\ run.walked => run.sourcesRead

\* C23 amended: in every reindexDocuments run the directory has been
\* enumerated by the time the indexed sources are read from the store, and
\* both have happened before the run deletes or inserts anything.
C23_WalkBeforeSourcesRead ==
  /\ Reindexing /\ run.sourcesRead => run.walked
  /\ Reindexing /\ ~(run.walked /\ run.sourcesRead) => db = run.pre

\* a run that has enumerated the directory and has not read the store yet
C23_Witness ==
  Reindexing /\ run.walked /\ ~run.sourcesRead

(***************************************************************************)
(* Claims about the window between the delete and the insert of a          *)
(* re-indexed file, under SpecReindexQuery.                                *)
(***************************************************************************)
\* the run is suspended at the await of a file that was already indexed
AwaitingIndexedFile ==
  /\ Reindexing
  /\ run.pc = "await"
  /\ run.files[run.i] \in run.existingFiles

Cites(contextChunks, filePath) ==
  \E i \in 1..Len(contextChunks) : contextChunks[i].filePath = filePath

\* C24: while reindexDocuments awaits the embeddings of a file that was
\* already indexed, the store holds no chunk of that source; it holds none
\* after the run either when the embedding request failed or when the new
\* content yielded no chunk; and a queryRag that searches the store while the
\* run is suspended there returns no chunk of that source.
C24_SourceAbsentDuringReindex ==
  /\ [](AwaitingIndexedFile => RowsOfFile(db, run.files[run.i]) = {})
  /\ [](result.op = "reindexDocuments" /\ result.status = "throw"
          /\ result.files[result.failed] \in result.deleted =>
            RowsOfFile(db, result.files[result.failed]) = {})
  /\ [](ReindexReturned =>
          \A f \in result.deleted \ result.embedded : RowsOfFile(db, f) = {})
  /\ [][AwaitingIndexedFile /\ rag.pc = "embedding" /\ rag'.status = "ok" =>
          ~Cites(rag'.context, run.files[run.i])]_vars

\* a queryRag that ran while the run awaited the embeddings of an indexed
\* file and did not see the source, which a search returned before the run
C24_Witness ==
  /\ AwaitingIndexedFile
  /\ rag.status = "ok"
  /\ rag.pre = db
  /\ ~Cites(rag.context, run.files[run.i])
  /\ Cites(similaritySearch(run.pre, QuestionEmbedding(rag.question), rag.topK),
           run.files[run.i])

\* a run that failed at an indexed file and left the store without the source
C24_LostOnFailure ==
  /\ result.op = "reindexDocuments" /\ result.status = "throw"
  /\ result.files[result.failed] \in result.deleted
  /\ RowsOfFile(result.pre, result.files[result.failed]) # {}
  /\ RowsOfFile(db, result.files[result.failed]) = {}

\* a run that returned after it emptied an indexed source whose new content
\* yields no chunk
C24_LostOnNoChunks ==
  /\ ReindexReturned
  /\ \E f \in result.deleted \ result.embedded :
       RowsOfFile(result.pre, f) # {} /\ RowsOfFile(db, f) = {}

(***************************************************************************)
(* Claims about repeated indexDocuments runs, under SpecIndexOnly.         *)
(***************************************************************************)
KeysOf(d) == {Key(c.file_path, c.hash) : c \in d.chunks}

\* the chunks of every content the source has been indexed with
ChunksEverIndexed(filePath) ==
  UNION {Range(ChunksOf(text)) : text \in history[filePath]}

ContentsOfFile(d, filePath) == {c.content : c \in RowsOfFile(d, filePath)}

\* C25: no step of indexDocuments removes a (filePath, hash) from the chunk
\* table, and between runs the chunk rows of every source are the chunks of
\* all the contents it has been indexed with, one row per distinct chunk:
\* the chunks of an old content stay beside those of the new one.
C25_IndexOnlyAccumulates ==
  /\ [][KeysOf(db) \subseteq KeysOf(db')]_vars
  /\ [](run.op = "idle" =>
          \A f \in Files :
            /\ ContentsOfFile(db, f) = ChunksEverIndexed(f)
            /\ Cardinality(RowsOfFile(db, f)) = Cardinality(ChunksEverIndexed(f)))

\* a source indexed with two contents, rewritten since, whose rows hold a
\* chunk that its present content does not yield
C25_Witness ==
  /\ result.op = "indexDocuments" /\ result.status = "ok"
  /\ \E f \in Files :
       /\ Cardinality(history[f]) >= 2
       /\ fs[f] \in history[f]
       /\ \E c \in RowsOfFile(db, f) : c.content \notin Range(ChunksOf(fs[f]))

(***************************************************************************)
(* Claims about the content chunkText keeps, under SpecChunkContent.       *)
(***************************************************************************)
\* u occupies positions p .. p + Len(u) - 1 of chunk c
IsSubstringAt(u, c, p) ==
  p + Len(u) - 1 <= Len(c) /\ SubSeq(c, p, p + Len(u) - 1) = u

\* the j-th character window of a unit, j counting from 0
Window(unit, j, chunkSize, stride) ==
  SubSeq(unit, j * stride + 1, Min(j * stride + chunkSize, Len(unit)))

\* chunks k .. k + m - 1 are the first m windows of the unit and reach its end
WindowsAt(unit, chunks, k, m, chunkSize, stride) ==
  /\ k + m - 1 <= Len(chunks)
  /\ \A j \in 0..(m - 1) : chunks[k + j] = Window(unit, j, chunkSize, stride)
  /\ (m - 1) * stride + chunkSize >= Len(unit)

\* the units from the i-th on are found, in order, from position p of chunk k
\* on: a unit no longer than chunkSize, trimmed, as a substring of a chunk; a
\* longer one as consecutive windows that reach its end.  Whitespace-only
\* units are passed over.  The earliest place is taken for each unit.
RECURSIVE UnitsFoundFrom(_, _, _, _, _, _, _)
UnitsFoundFrom(units, i, chunks, k, p, chunkSize, stride) ==
  IF i > Len(units) THEN TRUE
  ELSE IF Trim(units[i]) = <<>>
  THEN UnitsFoundFrom(units, i + 1, chunks, k, p, chunkSize, stride)
  ELSE IF Len(units[i]) > chunkSize
  THEN LET first == IF p > 1 THEN k + 1 ELSE k
           places == {pl \in (first..Len(chunks)) \X (1..Len(units[i])) :
                        WindowsAt(units[i], chunks, pl[1], pl[2], chunkSize, stride)}
       IN IF places = {} THEN FALSE
          ELSE LET place == CHOOSE pl \in places : \A other \in places :
                              \/ pl[1] < other[1]
                              \/ pl[1] = other[1] /\ pl[2] <= other[2]
               IN UnitsFoundFrom(units, i + 1, chunks, place[1] + place[2], 1,
                                 chunkSize, stride)
  ELSE LET u == Trim(units[i])
           places == UNION {{<<kk, pp>> : pp \in {q \in 1..Len(chunks[kk]) :
                                                   /\ kk > k \/ q >= p
                                                   /\ IsSubstringAt(u, chunks[kk], q)}} :
                            kk \in k..Len(chunks)}
       IN IF places = {} THEN FALSE
          ELSE LET place == CHOOSE pl \in places : \A other \in places :
                              \/ pl[1] < other[1]
                              \/ pl[1] = other[1] /\ pl[2] <= other[2]
               IN UnitsFoundFrom(units, i + 1, chunks, place[1], place[2] + Len(u),
                                 chunkSize, stride)

SentenceUnits == SplitSentences(Normalize(chunkIn.text))

\* C26: for chunkSize >= 1 and 0 <= chunkOverlap < chunkSize, every sentence
\* unit of the text that is not whitespace-only is found in the returned
\* chunks: trimmed, as a contiguous substring of a chunk, or, when longer
\* than chunkSize, as consecutive character windows that cover it; and the
\* units are found in their original order.
C26_NoContentLost ==
  chunkOut.done =>
    UnitsFoundFrom(SentenceUnits, 1, chunkOut.chunks, 1, 1, chunkIn.chunkSize,
                   chunkIn.chunkSize - chunkIn.chunkOverlap)

\* a call whose text has a unit that was split in windows followed by a unit
\* that was kept whole
C26_Witness ==
  /\ chunkOut.done
  /\ \E i \in 1..(Len(SentenceUnits) - 1) :
       /\ Len(SentenceUnits[i]) > chunkIn.chunkSize
       /\ Trim(SentenceUnits[i + 1]) # <<>>
       /\ Len(SentenceUnits[i + 1]) <= chunkIn.chunkSize
       /\ \E c \in 1..Len(SentenceUnits[i]) : SentenceUnits[i][c] = "a"
       /\ \E c \in 1..Len(SentenceUnits[i + 1]) : SentenceUnits[i + 1][c] = "b"
  /\ Len(chunkOut.chunks) >= 3

=============================================================================
